---- MODULE Spec2Model ----
(***************************************************************************)
(* A model of the lox tree-walking interpreter: the scanner                *)
(* (src/src/scanner.rs), the environment chain (src/src/environment.rs),   *)
(* and the statement/expression evaluator (src/src/statement.rs,           *)
(* src/src/expression.rs, src/src/lox_type.rs).                            *)
(***************************************************************************)
EXTENDS Integers, Sequences, FiniteSets, TLC

VARIABLES
    \* ---- scanner (struct Scanner, scanner.rs:14-24) ----
    source,      \* the source text, a sequence of one-character strings
    scanner,     \* the Scanner's mutable fields
    tokens,      \* the tokens collected so far by iterating next()
    scanDone,    \* TRUE once next() has returned None (or panicked)
    \* ---- interpreter (Interpreter::interpret, interpreter.rs:50-54) ----
    prog,        \* the top-level statements handed to interpret()
    pc,          \* index of the next top-level statement
    interp,      \* the interpreter state after the statements run so far
    before,      \* the interpreter state before the last statement run
    \* ---- an Environment driven through its operations (environment.rs) ----
    envChain,    \* the environment: its frames, innermost first
    envBefore,   \* the environment before the last operation
    envOp,       \* the last operation, its arguments and its answer
    \* ---- the process (main.rs: main, run) and the parser (parser.rs) ----
    run,         \* where run() stands, and the exit status once the process ended
    parser       \* Parser::function reading a parameter list: position and result

scanVars == <<source, scanner, tokens, scanDone>>
evalVars == <<prog, pc, interp, before>>
envVars  == <<envChain, envBefore, envOp>>
runVars  == <<run, parser>>

vars == <<source, scanner, tokens, scanDone, prog, pc, interp, before,
          envChain, envBefore, envOp, run, parser>>

\* ------------------------------------------------------------------------
\* Bounds
\* ------------------------------------------------------------------------
MaxSrcLen == 3
MaxCommentLen == 2

\* The characters sources are built from; NUL is what peek() answers at the
\* end of the input.
NUL == "\\0"
Alphabet == {"!", "=", "/", "*", "\n", "\"", "a", " ", "@"}

RECURSIVE SeqsUpTo(_, _)
SeqsUpTo(S, n) ==
    IF n = 0 THEN {<<>>}
    ELSE LET shorter == SeqsUpTo(S, n - 1)
         IN  shorter \cup {Append(q, c) : q \in {r \in shorter : Len(r) = n - 1}, c \in S}

Sources == SeqsUpTo(Alphabet, MaxSrcLen)

\* Sources that open with a terminated block comment: "/*", a body, "*/",
\* and nothing or one identifier after it.
CommentBodies == SeqsUpTo({"*", "/", "a", "\n"}, MaxCommentLen)
CommentSources ==
    { <<"/", "*">> \o body \o <<"*", "/">> \o tail :
        body \in CommentBodies, tail \in {<<>>, <<"a">>} }

\* ------------------------------------------------------------------------
\* Scanner (scanner.rs)
\* ------------------------------------------------------------------------
NoToken == [type |-> "None", line |-> 0, lexeme |-> <<>>]

\* Scanner::new
Scanner_new(src) ==
    [ current    |-> 0,
      start      |-> 0,
      line       |-> 1,
      at_the_end |-> (Len(src) = 0),
      errors     |-> <<>>,
      panicked   |-> FALSE ]

\* Scanner::is_at_end: the answer, and the scanner with the flag it sets.
AtEnd(src, s) == s.current >= Len(src)
is_at_end(src, s) == IF AtEnd(src, s) THEN [s EXCEPT !.at_the_end = TRUE] ELSE s

\* The letters and digits sources may use stand for 'a'..'z', 'A'..'Z', '_'
\* and '0'..'9'.
Letters == {"a", "b", "_"}
Digits == {"0", "1", "2"}
is_alpha(c) == c \in Letters
is_digit(c) == c \in Digits
is_alphanumeric(c) == is_alpha(c) \/ is_digit(c)

\* Scanner::peek: the iterator `chars` sits at offset `current`.
peek(src, s) == IF s.current < Len(src) THEN src[s.current + 1] ELSE NUL

\* Scanner::peek_next
peek_next(src, s) == IF s.current + 1 < Len(src) THEN src[s.current + 2] ELSE NUL

\* Scanner::advance: current += 1, then chars.next().unwrap() panics when the
\* iterator is exhausted.
advance(src, s) ==
    IF s.panicked THEN s
    ELSE IF s.current < Len(src)
    THEN [s EXCEPT !.current = s.current + 1]
    ELSE [s EXCEPT !.current = s.current + 1, !.panicked = TRUE]

\* Scanner::get_token_value and the token_n! macro
Lexeme(src, s) == SubSeq(src, s.start + 1, s.current)
Tok(src, s, ty) == [type |-> ty, line |-> s.line, lexeme |-> Lexeme(src, s)]

\* Scanner::matching: <<matched, scanner>>
matching(src, s, expected) ==
    IF AtEnd(src, s) THEN <<FALSE, is_at_end(src, s)>>
    ELSE IF peek(src, s) # expected THEN <<FALSE, s>>
    ELSE <<TRUE, advance(src, s)>>

\* while self.peek() != '\n' && !self.is_at_end() { advance }
RECURSIVE LineCommentLoop(_, _)
LineCommentLoop(src, s) ==
    IF peek(src, s) = "\n" THEN s
    ELSE IF AtEnd(src, s) THEN is_at_end(src, s)
    ELSE LineCommentLoop(src, advance(src, s))

\* while self.peek() != '*' && self.peek_next() != '/' && !self.is_at_end() { advance }
RECURSIVE BlockCommentLoop(_, _)
BlockCommentLoop(src, s) ==
    IF peek(src, s) = "*" THEN s
    ELSE IF peek_next(src, s) = "/" THEN s
    ELSE IF AtEnd(src, s) THEN is_at_end(src, s)
    ELSE BlockCommentLoop(src, advance(src, s))

\* while self.peek() != '"' && !self.is_at_end() { count newline; advance }
RECURSIVE StringLoop(_, _)
StringLoop(src, s) ==
    IF peek(src, s) = "\"" THEN s
    ELSE IF AtEnd(src, s) THEN is_at_end(src, s)
    ELSE StringLoop(src,
            advance(src, IF peek(src, s) = "\n" THEN [s EXCEPT !.line = s.line + 1] ELSE s))

\* Scanner::string: <<scanner, token or NoToken>>
string(src, s) ==
    LET s1 == StringLoop(src, s) IN
    IF AtEnd(src, s1)
    THEN <<[is_at_end(src, s1) EXCEPT
               !.errors = Append(s1.errors, [line |-> s1.line, msg |-> "Unterminated string literal."])],
           NoToken>>
    ELSE LET s2 == advance(src, s1) IN <<s2, Tok(src, s2, "String")>>

RECURSIVE DigitLoop(_, _)
DigitLoop(src, s) == IF is_digit(peek(src, s)) THEN DigitLoop(src, advance(src, s)) ELSE s

\* Scanner::number
number(src, s) ==
    LET s1 == DigitLoop(src, s)
        s2 == IF peek(src, s1) = "." /\ is_digit(peek_next(src, s1))
              THEN DigitLoop(src, advance(src, s1))
              ELSE s1
    IN  <<s2, Tok(src, s2, "Number")>>

RECURSIVE IdentLoop(_, _)
IdentLoop(src, s) == IF is_alphanumeric(peek(src, s)) THEN IdentLoop(src, advance(src, s)) ELSE s

\* Scanner::identifier
identifier(src, s) ==
    LET s1 == IdentLoop(src, s) IN <<s1, Tok(src, s1, "Keyword")>>

SingleCharType(c) ==
    CASE c = "(" -> "LeftParen"  [] c = ")" -> "RightParen"
      [] c = "{" -> "LeftBrace"  [] c = "}" -> "RightBrace"
      [] c = "," -> "Comma"      [] c = "." -> "Dot"
      [] c = "-" -> "Minus"      [] c = "+" -> "Plus"
      [] c = ";" -> "Semicolon"  [] c = "*" -> "Star"
      [] c = "?" -> "QuestionMark" [] c = ":" -> "Colon"

OneOrTwo(c) ==
    CASE c = "!" -> <<"Bang", "BangEqual">>
      [] c = "=" -> <<"Equal", "EqualEqual">>
      [] c = "<" -> <<"Less", "LessEqual">>
      [] c = ">" -> <<"Greater", "GreaterEqual">>

\* Scanner::next (Iterator impl): <<scanner, Some(token) or NoToken>>.  The
\* tail calls `return self.next()` are the recursion.
RECURSIVE Scanner_next(_, _)
Scanner_next(src, s0) ==
    LET s == [s0 EXCEPT !.start = s0.current] IN
    IF s0.panicked THEN <<s0, NoToken>>
    ELSE IF s.at_the_end THEN <<s, NoToken>>
    ELSE IF AtEnd(src, s)
    THEN <<[s EXCEPT !.at_the_end = TRUE], [type |-> "Eof", line |-> s.line, lexeme |-> <<>>]>>
    ELSE
      LET c  == src[s.current + 1]
          s1 == advance(src, s)
      IN
      CASE c \in {"(", ")", "{", "}", ",", ".", "-", "+", ";", "*", "?", ":"} ->
               <<s1, Tok(src, s1, SingleCharType(c))>>
        [] c \in {"!", "=", "<", ">"} ->
               LET m == matching(src, s1, "=") IN
               <<m[2], Tok(src, m[2], IF m[1] THEN OneOrTwo(c)[2] ELSE OneOrTwo(c)[1])>>
        [] c = "/" ->
               LET m == matching(src, s1, "/") IN
               IF m[1] THEN Scanner_next(src, LineCommentLoop(src, m[2]))
               ELSE LET m2 == matching(src, m[2], "*") IN
                    IF m2[1]
                    THEN Scanner_next(src, advance(src, advance(src, BlockCommentLoop(src, m2[2]))))
                    ELSE <<m2[2], Tok(src, m2[2], "Slash")>>
        [] c \in {" ", "\r", "\t"} -> Scanner_next(src, s1)
        [] c = "\n" -> Scanner_next(src, [s1 EXCEPT !.line = s1.line + 1])
        [] c = "\"" ->
               LET r == string(src, s1) IN
               IF r[2] # NoToken THEN r ELSE Scanner_next(src, r[1])
        [] is_digit(c) -> number(src, s1)
        [] is_alpha(c) -> identifier(src, s1)
        [] OTHER ->
               Scanner_next(src,
                   [s1 EXCEPT !.errors = Append(s1.errors, [line |-> s1.line, msg |-> "Unexpected character"])])

\* ------------------------------------------------------------------------
\* Values (enum LoxType, lox_type.rs:31-39).  Every value carries the three
\* fields; the ones its tag does not use hold 0 and <<>>.
\* ------------------------------------------------------------------------
Number(n)   == [t |-> "Number",   n |-> n, s |-> <<>>]
String(s)   == [t |-> "String",   n |-> 0, s |-> s]
Boolean(b)  == [t |-> "Boolean",  n |-> IF b THEN 1 ELSE 0, s |-> <<>>]
Nil         == [t |-> "Nil",      n |-> 0, s |-> <<>>]
Unknown     == [t |-> "Unknown",  n |-> 0, s |-> <<>>]
\* LoxType::Function(Arc<Mutex<dyn LoxCallable>>): n is the address of the
\* shared function object in the heap `funs`.
Function(id) == [t |-> "Function", n |-> id, s |-> <<>>]
\* Option::None where the code has an Option<LoxType>
NoValue     == [t |-> "None",     n |-> 0, s |-> <<>>]

\* LoxType::is_truthy (lox_type.rs:42-49)
is_truthy(v) ==
    CASE v.t = "Boolean" -> v.n = 1
      [] v.t = "Nil"     -> FALSE
      [] v.t = "Number"  -> v.n # 0
      [] OTHER           -> TRUE

\* PartialEq for LoxType (lox_type.rs:65-74)
LoxEq(a, b) ==
    CASE a.t = "String"  /\ b.t = "String"  -> a.s = b.s
      [] a.t = "Number"  /\ b.t = "Number"  -> a.n = b.n
      [] a.t = "Boolean" /\ b.t = "Boolean" -> a.n = b.n
      [] OTHER -> a.t = b.t

\* ------------------------------------------------------------------------
\* Environment (environment.rs:30-73).  A chain is the sequence of frames
\* from the innermost (index 1) to the outermost: frame i+1 is frame i's
\* `enclosing`.  A frame `values` is a function from names to values.
\* ------------------------------------------------------------------------
EmptyFrame == << >>

\* Environment::new()
Environment_new == <<EmptyFrame>>

\* Environment::define: HashMap::insert into the innermost frame
define(env, name, value) ==
    [env EXCEPT ![1] = (name :> value) @@ env[1]]

\* get searching the enclosing frames before its own
RECURSIVE get_OuterFirst(_, _)
get_OuterFirst(env, name) ==
    LET r == IF Len(env) > 1 THEN get_OuterFirst(Tail(env), name)
             ELSE [found |-> FALSE, value |-> NoValue]
    IN  IF r.found THEN r
        ELSE IF name \in DOMAIN env[1] THEN [found |-> TRUE, value |-> env[1][name]]
        ELSE r

\* Environment::get: [found, value]
RECURSIVE get(_, _)
get(env, name) ==
    IF name \in DOMAIN env[1] THEN [found |-> TRUE, value |-> env[1][name]]
    ELSE IF Len(env) > 1 THEN get(Tail(env), name)
    ELSE [found |-> FALSE, value |-> NoValue]

\* assign inserting into the outermost frame where no frame holds the name
RECURSIVE assign_DefinesMissing(_, _, _)
assign_DefinesMissing(env, name, value) ==
    IF name \in DOMAIN env[1] \/ Len(env) = 1
    THEN [found |-> TRUE, env |-> [env EXCEPT ![1] = (name :> value) @@ env[1]]]
    ELSE LET r == assign_DefinesMissing(Tail(env), name, value)
         IN  [found |-> r.found, env |-> <<env[1]>> \o r.env]

\* Environment::assign: [found, env]
RECURSIVE assign(_, _, _)
assign(env, name, value) ==
    IF name \in DOMAIN env[1]
    THEN [found |-> TRUE, env |-> [env EXCEPT ![1] = (name :> value) @@ env[1]]]
    ELSE IF Len(env) > 1
    THEN LET r == assign(Tail(env), name, value)
         IN  [found |-> r.found, env |-> <<env[1]>> \o r.env]
    ELSE [found |-> FALSE, env |-> env]

\* No operation yet.
NoOp == [op |-> "none", name |-> "", value |-> NoValue, found |-> TRUE, result |-> NoValue]

\* Block entry (statement.rs:92-99, with_env! environment.rs:106-115): the
\* current environment becomes the `enclosing` of a fresh empty frame.
PushFrame(env) == <<EmptyFrame>> \o env

\* Block exit (statement.rs:105-108 and 114-117, environment.rs:119-122):
\* `if let Some(enclosing_box) = guard.enclosing.take() { *guard = *enclosing_box }`
PopFrame(env) == IF Len(env) > 1 THEN Tail(env) ELSE env

\* ------------------------------------------------------------------------
\* The syntax tree: enum Expr (expression.rs:95-110) and enum Statement
\* (statement.rs:29-40; Function and Return as the parser and the evaluator
\* of lox_type.rs use them).
\* ------------------------------------------------------------------------
None == [k |-> "None"]

Literal(v)            == [k |-> "Literal", value |-> v]
Variable(name)        == [k |-> "Variable", name |-> name]
Assign(name, e)       == [k |-> "Assign", name |-> name, value |-> e]
Binary(l, op, r)      == [k |-> "Binary", left |-> l, operator |-> op, right |-> r]
Call(callee, args)    == [k |-> "Call", callee |-> callee, arguments |-> args]
Grouping(e)           == [k |-> "Grouping", expression |-> e]
Logical(l, op, r)     == [k |-> "Logical", left |-> l, operator |-> op, right |-> r]
Ternary(c, a, b)      == [k |-> "Ternary", condition |-> c, trueish |-> a, falseish |-> b]
Unary(op, r)          == [k |-> "Unary", operator |-> op, right |-> r]

Expression(e)         == [k |-> "Expression", expr |-> e]
PrintStmt(e)          == [k |-> "Print", expr |-> e]
Var(name, init)       == [k |-> "Var", name |-> name, initializer |-> init]
Block(stmts)          == [k |-> "Block", stmts |-> stmts]
If(c, a, b)           == [k |-> "If", condition |-> c, then_branch |-> a, else_branch |-> b]
While(c, body, isFor) == [k |-> "While", condition |-> c, body |-> body, in_for_loop |-> isFor]
Break                 == [k |-> "Break"]
Continue              == [k |-> "Continue"]
FunctionStmt(name, params, body) == [k |-> "Function", name |-> name, params |-> params, body |-> body]
Return(e)             == [k |-> "Return", value |-> e]

\* ------------------------------------------------------------------------
\* The interpreter state threaded through the evaluator:
\*   env   the current environment chain
\*   funs  the heap of function objects (the Arc<Mutex<..>> cells)
\*   out   the values printed to standard output so far
\*   err   the runtime error that ended the process (lox_error!), or NoErr
\*   val   the value of the last expression / the value a Return carries
\*   sig   the last statement's result: "Ok", or the StatementSignal
\* ------------------------------------------------------------------------
NoErr == ""
LoopBoundHit == "loop bound of the model reached"

Fail(st, msg) == [st EXCEPT !.err = msg]

\* The native function registered by Interpreter::new (interpreter.rs:33-43)
ClockFn == [native |-> TRUE, arity |-> 0, name |-> "clock", params |-> <<>>,
            body |-> None, closure |-> <<>>]

\* Interpreter::new (interpreter.rs:30-48)
Interpreter_new ==
    [ env  |-> <<("clock" :> Function(1))>>,
      funs |-> <<ClockFn>>,
      out  |-> <<>>,
      err  |-> NoErr,
      val  |-> Nil,
      sig  |-> "Ok" ]

\* Expr::eval, Binary operators (expression.rs:127-194): a value, or NoValue
\* where the code raises a runtime error.  Numbers of the model are small
\* integers, on which f64 arithmetic is exact; `/` and the Number-to-String
\* coercion of `+` are outside the model (no program of the model uses them).
BinaryOp(op, l, r) ==
    LET nums == l.t = "Number" /\ r.t = "Number" IN
    CASE op = ">"  -> IF nums THEN Boolean(l.n > r.n)  ELSE NoValue
      [] op = ">=" -> IF nums THEN Boolean(l.n >= r.n) ELSE NoValue
      [] op = "<"  -> IF nums THEN Boolean(l.n < r.n)  ELSE NoValue
      [] op = "<=" -> IF nums THEN Boolean(l.n <= r.n) ELSE NoValue
      [] op = "!=" -> Boolean(~LoxEq(l, r))
      [] op = "==" -> Boolean(LoxEq(l, r))
      [] op = "-"  -> IF nums THEN Number(l.n - r.n) ELSE NoValue
      [] op = "+"  -> IF nums THEN Number(l.n + r.n)
                      ELSE IF l.t = "String" /\ r.t = "String" THEN String(l.s \o r.s)
                      ELSE NoValue
      [] op = "*"  -> IF nums THEN Number(l.n * r.n) ELSE NoValue

\* ------------------------------------------------------------------------
\* The evaluator: Expr::eval (expression.rs:112-296), Statement::eval
\* (statement.rs:65-163) and LoxFunction::call (lox_type.rs:85-126).
\* Once st.err is set the process has exited: nothing more is evaluated.
\* ------------------------------------------------------------------------
RECURSIVE EvalExpr(_, _), EvalArgs(_, _, _, _), EvalStmt(_, _), ExecStmts(_, _, _),
          Block_eval(_, _), WhileLoop(_, _, _), LoxFunction_call(_, _, _)

MaxLoopIter == 8

\* Expr::eval (Variable), expression.rs:290-293
Variable_eval(e, st) ==
    LET r == get(st.env, e.name) IN
    IF r.found THEN [st EXCEPT !.val = r.value] ELSE Fail(st, "Undefined variable")

\* Expr::eval (Assign), expression.rs:115-122
Assign_eval(e, st) ==
    LET s1 == EvalExpr(e.value, st)
        r  == assign(s1.env, e.name, s1.val)
    IN  IF s1.err # NoErr THEN s1
        ELSE IF r.found THEN [s1 EXCEPT !.env = r.env]
        ELSE Fail(s1, "Undefined variable")

\* Expr::eval (Binary), expression.rs:123-195
Binary_eval(e, st) ==
    LET s1 == EvalExpr(e.left, st)
        s2 == EvalExpr(e.right, s1)
        v  == BinaryOp(e.operator, s1.val, s2.val)
    IN  IF s2.err # NoErr THEN s2
        ELSE IF v = NoValue THEN Fail(s2, "operand type mismatch")
        ELSE [s2 EXCEPT !.val = v]

\* "Error: Expected {} arguments but got {}." (expression.rs:207-212)
ArityError(arity, got) ==
    "Expected " \o ToString(arity) \o " arguments but got " \o ToString(got) \o "."

\* LoxFunction::arity (lox_type.rs:123-125) and LoxNativeFunction::arity
\* (lox_type.rs:133-135)
arity(f) == IF f.native THEN f.arity ELSE Len(f.params)

\* Call_eval with the check of line 206 weakened to `args.len() < fun.arity()`:
\* a call with too many arguments goes through and the extra ones are dropped.
Call_eval_ExtraArgsIgnored(e, st) ==
    LET s1     == EvalExpr(e.callee, st)
        callee == s1.val
        ar     == EvalArgs(e.arguments, 1, s1, <<>>)
        s2     == ar[1]
        args   == ar[2]
    IN  IF s2.err # NoErr THEN s2
        ELSE IF callee.t # "Function" THEN Fail(s2, "Can only call functions and classes.")
        ELSE IF Len(args) < arity(s2.funs[callee.n])
        THEN Fail(s2, ArityError(arity(s2.funs[callee.n]), Len(args)))
        ELSE IF s2.funs[callee.n].native THEN Fail(s2, "native call outside the model")
        ELSE LoxFunction_call(callee.n, args, s2)

\* Expr::eval (Call), expression.rs:196-223
Call_eval(e, st) ==
    LET s1     == EvalExpr(e.callee, st)
        callee == s1.val
        ar     == EvalArgs(e.arguments, 1, s1, <<>>)
        s2     == ar[1]
        args   == ar[2]
    IN  IF s2.err # NoErr THEN s2
        ELSE IF callee.t # "Function" THEN Fail(s2, "Can only call functions and classes.")
        ELSE IF Len(args) # arity(s2.funs[callee.n])
        THEN Fail(s2, ArityError(arity(s2.funs[callee.n]), Len(args)))
        ELSE IF s2.funs[callee.n].native THEN Fail(s2, "native call outside the model")
        ELSE LoxFunction_call(callee.n, args, s2)

\* Logical_eval without the early returns of lines 243-258: the right operand
\* is evaluated whatever the left one is.
Logical_eval_Eager(e, st) ==
    LET s1 == EvalExpr(e.left, st)
        s2 == EvalExpr(e.right, s1)
    IN  IF s2.err # NoErr THEN s2
        ELSE IF e.operator = "or" /\ is_truthy(s1.val) THEN [s2 EXCEPT !.val = s1.val]
        ELSE IF e.operator # "or" /\ ~is_truthy(s1.val) THEN [s2 EXCEPT !.val = s1.val]
        ELSE s2

\* Expr::eval (Logical), expression.rs:237-261
Logical_eval(e, st) ==
    LET s1 == EvalExpr(e.left, st) IN
    IF s1.err # NoErr THEN s1
    ELSE IF e.operator = "or" /\ is_truthy(s1.val) THEN s1
    ELSE IF e.operator # "or" /\ ~is_truthy(s1.val) THEN s1
    ELSE EvalExpr(e.right, s1)

\* Expr::eval (Ternary), expression.rs:264-274: both branches are evaluated
Ternary_eval(e, st) ==
    LET s1 == EvalExpr(e.condition, st)
        s2 == EvalExpr(e.trueish, s1)
        s3 == EvalExpr(e.falseish, s2)
    IN  IF s3.err # NoErr THEN s3
        ELSE [s3 EXCEPT !.val = IF is_truthy(s1.val) THEN s2.val ELSE s3.val]

\* Expr::eval (Unary), expression.rs:276-289
Unary_eval(e, st) ==
    LET s1 == EvalExpr(e.right, st) IN
    IF s1.err # NoErr THEN s1
    ELSE IF e.operator = "!" THEN [s1 EXCEPT !.val = Boolean(~is_truthy(s1.val))]
    ELSE IF s1.val.t = "Number" THEN [s1 EXCEPT !.val = Number(0 - s1.val.n)]
    ELSE Fail(s1, "Cannot negate NaNs")

EvalExpr(e, st) ==
    IF st.err # NoErr THEN st
    ELSE CASE e.k = "Literal"  -> [st EXCEPT !.val = e.value]
           [] e.k = "Variable" -> Variable_eval(e, st)
           [] e.k = "Assign"   -> Assign_eval(e, st)
           [] e.k = "Binary"   -> Binary_eval(e, st)
           [] e.k = "Call"     -> Call_eval(e, st)
           [] e.k = "Grouping" -> EvalExpr(e.expression, st)
           [] e.k = "Logical"  -> Logical_eval(e, st)
           [] e.k = "Ternary"  -> Ternary_eval(e, st)
           [] e.k = "Unary"    -> Unary_eval(e, st)

\* call_expr.arguments.iter().map(|carg| carg.eval()).collect(), left to right
EvalArgs(args, i, st, acc) ==
    IF i > Len(args) \/ st.err # NoErr THEN <<st, acc>>
    ELSE LET s1 == EvalExpr(args[i], st) IN EvalArgs(args, i + 1, s1, Append(acc, s1.val))

\* The statements of a block in order, stopping at the first signal
\* (`for stmt in block { let res = stmt.eval(); if res.is_err() { .. return res } }`)
ExecStmts(stmts, i, st) ==
    IF i > Len(stmts) THEN st
    ELSE LET s1 == EvalStmt(stmts[i], st) IN
         IF s1.err # NoErr \/ s1.sig # "Ok" THEN s1
         ELSE ExecStmts(stmts, i + 1, s1)

\* Block_eval with the pop of lines 105-108 left out: a signal leaves the
\* block's frame on the chain.
Block_eval_KeepsFrameOnSignal(s, st) ==
    LET s1 == ExecStmts(s.stmts, 1, [st EXCEPT !.env = PushFrame(st.env)]) IN
    IF s1.err # NoErr THEN s1
    ELSE IF s1.sig # "Ok" THEN s1
    ELSE [s1 EXCEPT !.env = PopFrame(s1.env)]

\* Block_eval answering Ok(()) where a statement signalled: the signal ends
\* the block and goes no further.
Block_eval_SwallowsSignal(s, st) ==
    LET s1 == ExecStmts(s.stmts, 1, [st EXCEPT !.env = PushFrame(st.env)]) IN
    IF s1.err # NoErr THEN s1
    ELSE [s1 EXCEPT !.env = PopFrame(s1.env), !.sig = "Ok"]

\* Statement::eval (Block), statement.rs:91-120: the frame pushed at entry is
\* popped where a statement signals (105-110) and at the end (114-119).
Block_eval(s, st) ==
    LET s1 == ExecStmts(s.stmts, 1, [st EXCEPT !.env = PushFrame(st.env)]) IN
    IF s1.err # NoErr THEN s1
    ELSE IF s1.sig # "Ok" THEN [s1 EXCEPT !.env = PopFrame(s1.env)]
    ELSE [s1 EXCEPT !.env = PopFrame(s1.env)]

\* Statement::eval (If), statement.rs:121-129
If_eval(s, st) ==
    LET s1 == EvalExpr(s.condition, st) IN
    IF s1.err # NoErr THEN s1
    ELSE IF is_truthy(s1.val) THEN EvalStmt(s.then_branch, s1)
    ELSE IF s.else_branch # None THEN EvalStmt(s.else_branch, s1)
    ELSE s1

\* While_signal with `StatementSignal::Break => return Err(ss)`: the Break
\* passes the loop.
While_signal_BreakPropagates(s, s2, n) ==
    CASE s2.sig = "Break"    -> s2
      [] s2.sig = "Continue" ->
           IF s.in_for_loop /\ s.body.k = "Block"
           THEN LET s3 == EvalStmt(s.body.stmts[Len(s.body.stmts)], [s2 EXCEPT !.sig = "Ok"])
                IN  WhileLoop(s, [s3 EXCEPT !.sig = "Ok"], n - 1)
           ELSE WhileLoop(s, [s2 EXCEPT !.sig = "Ok"], n - 1)
      [] s2.sig = "Return"   -> s2
      [] OTHER               -> WhileLoop(s, s2, n - 1)

\* While_signal without lines 138-144: Continue goes straight to the test.
While_signal_ContinueSkipsIncrement(s, s2, n) ==
    CASE s2.sig = "Break"    -> [s2 EXCEPT !.sig = "Ok"]
      [] s2.sig = "Continue" -> WhileLoop(s, [s2 EXCEPT !.sig = "Ok"], n - 1)
      [] s2.sig = "Return"   -> s2
      [] OTHER               -> WhileLoop(s, s2, n - 1)

\* Statement::eval (While), statement.rs:134-150: what the loop does with
\* the result `s2` of one evaluation of its body.
While_signal(s, s2, n) ==
    CASE s2.sig = "Break"    -> [s2 EXCEPT !.sig = "Ok"]
      [] s2.sig = "Continue" ->
           IF s.in_for_loop /\ s.body.k = "Block"
           THEN \* let _ = loop_block.last().unwrap().eval();
                LET s3 == EvalStmt(s.body.stmts[Len(s.body.stmts)], [s2 EXCEPT !.sig = "Ok"])
                IN  WhileLoop(s, [s3 EXCEPT !.sig = "Ok"], n - 1)
           ELSE WhileLoop(s, [s2 EXCEPT !.sig = "Ok"], n - 1)
      [] s2.sig = "Return"   -> s2
      [] OTHER               -> WhileLoop(s, s2, n - 1)

\* Statement::eval (While), statement.rs:130-154.  `n` counts the iterations
\* the model still follows.
WhileLoop(s, st, n) ==
    LET s1 == EvalExpr(s.condition, st) IN
    IF s1.err # NoErr THEN s1
    ELSE IF ~is_truthy(s1.val) THEN [s1 EXCEPT !.sig = "Ok"]
    ELSE IF n = 0 THEN Fail(s1, LoopBoundHit)
    ELSE LET s2 == EvalStmt(s.body, s1) IN
         IF s2.err # NoErr THEN s2 ELSE While_signal(s, s2, n)

\* Statement::eval (Var), statement.rs:79-90
Var_eval(s, st) ==
    LET s1 == IF s.initializer = None THEN [st EXCEPT !.val = Nil]
              ELSE EvalExpr(s.initializer, st)
    IN  IF s1.err # NoErr THEN s1
        ELSE [s1 EXCEPT !.env = define(s1.env, s.name, s1.val)]

\* Statement::eval (Print), statement.rs:73-78
Print_eval(s, st) ==
    LET s1 == EvalExpr(s.expr, st) IN
    IF s1.err # NoErr THEN s1 ELSE [s1 EXCEPT !.out = Append(s1.out, s1.val)]

\* Statement::eval (Function): the function object captures the current
\* environment in its `closure` field (lox_type.rs:22, an Environment held by
\* value) and the name is defined in the current frame.
Function_eval(s, st) ==
    LET f == [native |-> FALSE, arity |-> Len(s.params), name |-> s.name,
              params |-> s.params, body |-> Block(s.body), closure |-> st.env]
    IN  [st EXCEPT !.funs = Append(st.funs, f),
                   !.env  = define(st.env, s.name, Function(Len(st.funs) + 1))]

\* Statement::eval (Return): StatementSignal::Return(Option<LoxType>)
Return_eval(s, st) ==
    IF s.value = None THEN [st EXCEPT !.sig = "Return", !.val = NoValue]
    ELSE LET s1 == EvalExpr(s.value, st) IN
         IF s1.err # NoErr THEN s1 ELSE [s1 EXCEPT !.sig = "Return"]

EvalStmt(s, st0) ==
    LET st == [st0 EXCEPT !.sig = "Ok"] IN
    IF st0.err # NoErr THEN st0
    ELSE CASE s.k = "Expression" -> EvalExpr(s.expr, st)
           [] s.k = "Print"      -> Print_eval(s, st)
           [] s.k = "Var"        -> Var_eval(s, st)
           [] s.k = "Block"      -> Block_eval(s, st)
           [] s.k = "If"         -> If_eval(s, st)
           [] s.k = "While"      -> WhileLoop(s, st, MaxLoopIter)
           [] s.k = "Break"      -> [st EXCEPT !.sig = "Break"]
           [] s.k = "Continue"   -> [st EXCEPT !.sig = "Continue"]
           [] s.k = "Function"   -> Function_eval(s, st)
           [] s.k = "Return"     -> Return_eval(s, st)

\* call_env.define(param_name, args[i]) for every parameter (lox_type.rs:94-105)
RECURSIVE BindParams(_, _, _, _)
BindParams(env, params, args, i) ==
    IF i > Len(params) THEN env
    ELSE BindParams(define(env, params[i], args[i]), params, args, i + 1)

\* Environment::new(enclosing, values) as LoxFunction::call and
\* Interpreter::new use it: a frame `values` whose parent is `enclosing`.
Environment_with(enclosing, values) == <<values>> \o enclosing

\* Environment::reset(&mut self, other): self takes over other's frames.
reset(self, other) == other

\* LoxFunction_call with the last arm of lines 115-119 handing the signal on
\* to the caller instead of raising the error.
LoxFunction_call_SignalEscapes(fid, args, st) ==
    LET self     == st.funs[fid]
        copyId   == Len(st.funs) + 1
        funs1    == Append(st.funs, self)
        closure  == define(self.closure, self.name, Function(copyId))
        call_env == BindParams(Environment_with(closure, st.env[1]), self.params, args, 1)
        res      == EvalStmt(self.body, [st EXCEPT !.env = call_env, !.funs = funs1])
        funs2    == [res.funs EXCEPT ![fid].closure = reset(self.closure, Tail(res.env))]
        back     == [res EXCEPT !.env = st.env, !.funs = funs2, !.sig = "Ok"]
    IN  IF res.err # NoErr THEN res
        ELSE IF res.sig = "Ok" THEN [back EXCEPT !.val = Nil]
        ELSE IF res.sig = "Return"
        THEN [back EXCEPT !.val = IF res.val = NoValue THEN Nil ELSE res.val]
        ELSE [back EXCEPT !.sig = res.sig]

\* LoxFunction_call without line 108: what the body did to the captured
\* environment is dropped with call_env.
LoxFunction_call_NoWriteBack(fid, args, st) ==
    LET self     == st.funs[fid]
        copyId   == Len(st.funs) + 1
        funs1    == Append(st.funs, self)
        closure  == define(self.closure, self.name, Function(copyId))
        call_env == BindParams(Environment_with(closure, st.env[1]), self.params, args, 1)
        res      == EvalStmt(self.body, [st EXCEPT !.env = call_env, !.funs = funs1])
        back     == [res EXCEPT !.env = st.env, !.sig = "Ok"]
    IN  IF res.err # NoErr THEN res
        ELSE IF res.sig = "Ok" THEN [back EXCEPT !.val = Nil]
        ELSE IF res.sig = "Return"
        THEN [back EXCEPT !.val = IF res.val = NoValue THEN Nil ELSE res.val]
        ELSE Fail(back, "Function terminated with an unexpected token.")

\* LoxFunction::call, lox_type.rs:86-121.  `fid` is the address of self,
\* st.env the caller's environment (the `env` argument).
LoxFunction_call(fid, args, st) ==
    LET self     == st.funs[fid]
        copyId   == Len(st.funs) + 1            \* Arc::new(Mutex::new(self.clone()))
        funs1    == Append(st.funs, self)
        closure  == define(self.closure, self.name, Function(copyId))
        call_env == BindParams(Environment_with(closure, st.env[1]), self.params, args, 1)
        res      == EvalStmt(self.body, [st EXCEPT !.env = call_env, !.funs = funs1])
        funs2    == [res.funs EXCEPT ![fid].closure = reset(self.closure, Tail(res.env))]
        back     == [res EXCEPT !.env = st.env, !.funs = funs2, !.sig = "Ok"]
    IN  IF res.err # NoErr THEN res
        ELSE IF res.sig = "Ok" THEN [back EXCEPT !.val = Nil]
        ELSE IF res.sig = "Return"
        THEN [back EXCEPT !.val = IF res.val = NoValue THEN Nil ELSE res.val]
        ELSE Fail(back, "Function terminated with an unexpected token.")

\* ------------------------------------------------------------------------
\* The process: main() and run() (main.rs:1370-1389, 1425-1448).  run.phase
\* is the step run() is at: "scan", "parse", "interpret", and "exited" once
\* the process has ended with status run.code, or "aborted" after a panic.
\* ------------------------------------------------------------------------
SuccessExitCode == 0
\* std::process::exit(1) of the error macro (main.rs:24) and of main (main.rs:1376, 1381)
ErrorExitCode == 1

Run_new == [phase |-> "scan", code |-> 0, syntax_error |-> FALSE]
\* Exit with the status dropped: the process always ends with status 0.
Exit_AlwaysSuccess(r, c) == [r EXCEPT !.phase = "exited", !.code = 0]
Exit(r, c) == [r EXCEPT !.phase = "exited", !.code = c]

\* Parser::function after the name and '(' (parser.rs:393-421): `at` is the
\* statement about to run, `current` the index of the next token (counted
\* from 1), `parameters` the parameters pushed so far, `err` and `line` the
\* message and the N of the reported "[line N] Error: ..".
Parser_new == [at |-> "begin", current |-> 1, parameters |-> <<>>, err |-> NoErr, line |-> 0]

\* ------------------------------------------------------------------------
\* Scanning a source: run() collects the iterator (main.rs:1429)
\* ------------------------------------------------------------------------
ScanInit ==
    /\ source \in Sources \cup CommentSources
    /\ scanner = Scanner_new(source)
    /\ tokens = <<>>
    /\ scanDone = FALSE
    /\ prog = <<>>
    /\ pc = 1
    /\ interp = Interpreter_new
    /\ before = Interpreter_new
    /\ envChain = Environment_new
    /\ envBefore = Environment_new
    /\ envOp = NoOp
    /\ run = Run_new
    /\ parser = Parser_new

\* One call of next() that yields Some(token): collect() pushes it.
NextToken ==
    /\ ~scanDone
    /\ LET r == Scanner_next(source, scanner) IN
       /\ r[2] # NoToken
       /\ scanner' = r[1]
       /\ tokens' = Append(tokens, r[2])
       /\ UNCHANGED <<source, scanDone>>
       /\ UNCHANGED evalVars
       /\ UNCHANGED envVars
       /\ UNCHANGED runVars

\* The call of next() that yields None: collect() stops.
NextNone ==
    /\ ~scanDone
    /\ LET r == Scanner_next(source, scanner) IN
       /\ r[2] = NoToken
       /\ scanner' = r[1]
       /\ scanDone' = TRUE
       /\ UNCHANGED <<source, tokens>>
       /\ UNCHANGED evalVars
       /\ UNCHANGED envVars
       /\ UNCHANGED runVars

ScanNext == NextToken \/ NextNone

SpecScan == ScanInit /\ [][ScanNext]_vars

\* ------------------------------------------------------------------------
\* Programs.  The parser's desugaring of `for` (Parser::for_statement,
\* parser.rs:527-576) and the bounded families of programs interpreted.
\* ------------------------------------------------------------------------
Num(n) == Literal(Number(n))
True   == Literal(Boolean(TRUE))
False  == Literal(Boolean(FALSE))

MaxDepth == 2

\* Statements nested in blocks, ifs and loops up to a depth; the leaves
\* raise each signal or complete normally.
Leaves ==
    { Break, Continue, Return(None), Return(Num(7)),
      Expression(Assign("x", Num(5))), PrintStmt(Variable("x")) }

Wrap(inner) ==
    { Block(<<Var("y", Num(1)), inner, PrintStmt(Num(9))>>),
      Block(<<inner>>),
      If(True, inner, None),
      If(False, PrintStmt(Num(8)), inner),
      While(Binary(Variable("x"), "<", Num(1)),
            Block(<<Expression(Assign("x", Binary(Variable("x"), "+", Num(1)))), inner>>),
            FALSE) }

RECURSIVE Nested(_)
Nested(d) ==
    IF d = 0 THEN Leaves
    ELSE Nested(d - 1) \cup UNION { Wrap(s) : s \in Nested(d - 1) }

\* var x = 0; { var z = 2; <nested statement>; print x; }
BlockPrograms ==
    { << Var("x", Num(0)),
         Block(<<Var("z", Num(2)), s, PrintStmt(Variable("x"))>>),
         PrintStmt(Variable("x")) >> : s \in Nested(MaxDepth) }

MaxCalls == 3

\* fun makeCounter() { var i = 0; fun count() { i = i + 1; print i; } return count; }
\* var c = makeCounter(); c(); ... c();
MakeCounter ==
    FunctionStmt("makeCounter", <<>>,
        << Var("i", Num(0)),
           FunctionStmt("count", <<>>,
               << Expression(Assign("i", Binary(Variable("i"), "+", Num(1)))),
                  PrintStmt(Variable("i")) >>),
           Return(Variable("count")) >>)

CounterProgram(k) ==
    << MakeCounter, Var("c", Call(Variable("makeCounter"), <<>>)) >>
    \o [j \in 1..k |-> Expression(Call(Variable("c"), <<>>))]

CounterPrograms == { CounterProgram(k) : k \in 1..MaxCalls }

\* fun f() { print x; }  { var x = 2; f(); }
CallerOnlyProgram ==
    << FunctionStmt("f", <<>>, <<PrintStmt(Variable("x"))>>),
       Block(<<Var("x", Num(2)), Expression(Call(Variable("f"), <<>>))>>) >>

\* var x = 1; fun f() { print x; }  { var x = 2; f(); }
ShadowProgram ==
    << Var("x", Num(1)),
       FunctionStmt("f", <<>>, <<PrintStmt(Variable("x"))>>),
       Block(<<Var("x", Num(2)), Expression(Call(Variable("f"), <<>>))>>) >>

\* var x = 1; fun outer() { var x = 2; fun inner() { print x; } inner(); } outer();
LexicalProgram ==
    << Var("x", Num(1)),
       FunctionStmt("outer", <<>>,
           << Var("x", Num(2)),
              FunctionStmt("inner", <<>>, <<PrintStmt(Variable("x"))>>),
              Expression(Call(Variable("inner"), <<>>)) >>),
       Expression(Call(Variable("outer"), <<>>)) >>

\* fun id(a) { return a; }  print id(v);
ParamProgram(v) ==
    << FunctionStmt("id", <<"a">>, <<Return(Variable("a"))>>),
       PrintStmt(Call(Variable("id"), <<Num(v)>>)) >>

ScopePrograms ==
    { CallerOnlyProgram, ShadowProgram, LexicalProgram } \cup { ParamProgram(v) : v \in 0..MaxCalls }

SetGet ==
    << Var("x", Num(0)),
       FunctionStmt("set", <<>>, <<Expression(Assign("x", Num(1)))>>),
       FunctionStmt("get", <<>>, <<PrintStmt(Variable("x"))>>) >>

\* var x = 0; fun set() { x = 1; } fun get() { print x; }  set(); get();
SharedProgram ==
    SetGet \o << Expression(Call(Variable("set"), <<>>)),
                 Expression(Call(Variable("get"), <<>>)) >>

\* the same two functions called from a nested block:  { set(); get(); }
SharedNestedProgram ==
    SetGet \o << Block(<< Expression(Call(Variable("set"), <<>>)),
                          Expression(Call(Variable("get"), <<>>)) >>) >>

\* { var x = 0; fun set() ..; fun get() ..; { set(); get(); } }
SharedLocalProgram ==
    << Block(SetGet \o << Block(<< Expression(Call(Variable("set"), <<>>)),
                                   Expression(Call(Variable("get"), <<>>)) >>) >>) >>

SharedPrograms == { SharedProgram, SharedNestedProgram, SharedLocalProgram }

\* Parser::for_statement, parser.rs:527-576
for_statement(initializer, condition, increment, body) ==
    LET body1 == IF increment # None THEN Block(<<body, Expression(increment)>>) ELSE body
        loop  == While(IF condition = None THEN True ELSE condition, body1, TRUE)
    IN  IF initializer # None THEN Block(<<initializer, loop>>) ELSE loop

MaxCount == 5

Incr(name) == Assign(name, Binary(Variable(name), "+", Num(1)))

\* A statement that raises `leaf` under `d` levels of blocks and ifs, each
\* block with a statement after the nested one.
RECURSIVE Under(_, _)
Under(leaf, d) ==
    IF d = 0 THEN {leaf}
    ELSE Under(leaf, d - 1)
         \cup { Block(<<Var("y", Num(1)), s, PrintStmt(Num(9))>>) : s \in Under(leaf, d - 1) }
         \cup { If(True, s, None) : s \in Under(leaf, d - 1) }

\* var i = 0; var t = 0;
\* while (i < n) { while ((t = t + 1) < 100) <statement raising break> i = i + 1; }
\* print i; print t;
BreakProgram(n, inner) ==
    << Var("i", Num(0)), Var("t", Num(0)),
       While(Binary(Variable("i"), "<", Num(n)),
             Block(<< While(Binary(Grouping(Incr("t")), "<", Num(100)), inner, FALSE),
                      Expression(Incr("i")) >>),
             FALSE),
       PrintStmt(Variable("i")), PrintStmt(Variable("t")) >>

BreakPrograms == { BreakProgram(n, b) : n \in 0..MaxCount, b \in Under(Break, MaxDepth) }

\* var i = 0; while (true) { if (i == l) break; i = i + 1; } print i;
BreakAtProgram(l) ==
    << Var("i", Num(0)),
       While(True, Block(<< If(Binary(Variable("i"), "==", Num(l)), Break, None),
                            Expression(Incr("i")) >>), FALSE),
       PrintStmt(Variable("i")) >>

BreakAtPrograms == { BreakAtProgram(l) : l \in 0..MaxCount }

\* for (var i = 0; i < n; i = i + 1) { if (i == k) continue; print i; }  print 100;
ForContinueProgram(n, k) ==
    << for_statement(Var("i", Num(0)), Binary(Variable("i"), "<", Num(n)), Incr("i"),
                     Block(<< If(Binary(Variable("i"), "==", Num(k)), Continue, None),
                              PrintStmt(Variable("i")) >>)),
       PrintStmt(Num(100)) >>

\* the same loop with an unbraced body:  if (i == k) continue; else print i;
ForContinueBareProgram(n, k) ==
    << for_statement(Var("i", Num(0)), Binary(Variable("i"), "<", Num(n)), Incr("i"),
                     If(Binary(Variable("i"), "==", Num(k)), Continue, PrintStmt(Variable("i")))),
       PrintStmt(Num(100)) >>

ForPrograms ==
    { ForContinueProgram(n, k) : n \in 0..MaxCount, k \in 0..MaxCount }
    \cup { ForContinueBareProgram(n, k) : n \in 0..MaxCount, k \in 0..MaxCount }

\* A statement that raises `leaf` under `d` levels of blocks, ifs and loops.
RECURSIVE UnderLoops(_, _)
UnderLoops(leaf, d) ==
    IF d = 0 THEN {leaf}
    ELSE UnderLoops(leaf, d - 1)
         \cup { Block(<<Var("y", Num(1)), s, PrintStmt(Num(9))>>) : s \in UnderLoops(leaf, d - 1) }
         \cup { If(True, s, None) : s \in UnderLoops(leaf, d - 1) }
         \cup { While(True, Block(<<s, PrintStmt(Num(9))>>), FALSE) : s \in UnderLoops(leaf, d - 1) }

\* fun f() { <statement raising return>; print 99; }  print f();
ReturnProgram(inner) ==
    << FunctionStmt("f", <<>>, <<inner, PrintStmt(Num(99))>>),
       PrintStmt(Call(Variable("f"), <<>>)) >>

ReturnValuePrograms == { ReturnProgram(b) : b \in UnderLoops(Return(Num(7)), MaxDepth) }
ReturnNonePrograms  == { ReturnProgram(b) : b \in UnderLoops(Return(None), MaxDepth) }

\* fun f() { print 1; }  print f();
NoReturnProgram ==
    << FunctionStmt("f", <<>>, <<PrintStmt(Num(1))>>),
       PrintStmt(Call(Variable("f"), <<>>)) >>

ReturnPrograms == ReturnValuePrograms \cup ReturnNonePrograms \cup {NoReturnProgram}

\* fun f() { <statement raising break or continue>; print 99; }
\* var i = 0; while (i < 2) { i = i + 1; f(); print i; }  print 100;
EscapePrograms ==
    LET EscapeProgram(inner) ==
            << FunctionStmt("f", <<>>, <<inner, PrintStmt(Num(99))>>),
               Var("i", Num(0)),
               While(Binary(Variable("i"), "<", Num(2)),
                     Block(<< Expression(Incr("i")),
                              Expression(Call(Variable("f"), <<>>)),
                              PrintStmt(Variable("i")) >>),
                     FALSE),
               PrintStmt(Num(100)) >>
    IN  { EscapeProgram(b) : b \in Under(Break, MaxDepth) \cup Under(Continue, MaxDepth) }

\* fun g() { var j = 0; while (j < 2) { j = j + 1; <break or continue>; }  print 5; }  g();
ConsumedPrograms ==
    LET ConsumedProgram(inner) ==
            << FunctionStmt("g", <<>>,
                            << Var("j", Num(0)),
                               While(Binary(Variable("j"), "<", Num(2)),
                                     Block(<<Expression(Incr("j")), inner>>), FALSE),
                               PrintStmt(Num(5)) >>),
               Expression(Call(Variable("g"), <<>>)) >>
    IN  { ConsumedProgram(b) : b \in Under(Break, MaxDepth) \cup Under(Continue, MaxDepth) }

\* <statement raising break, continue or return>  print 1;
TopSignalPrograms ==
    { <<s, PrintStmt(Num(1))>> :
        s \in Under(Break, 1) \cup Under(Continue, 1) \cup Under(Return(None), 1)
              \cup Under(Return(Num(7)), 1) }

\* Operands whose evaluation is counted in a variable: e is the expression,
\* v its value when the counter `c` was 0 before, n what it adds to `c`.
\*   (c = c + 1) < k      (c = c + 1) * w      and literals, which count nothing
Operands(c) ==
    { [e |-> Binary(Grouping(Incr(c)), "<", Num(k)), v |-> Boolean(1 < k), n |-> 1] : k \in {1, 2} }
    \cup { [e |-> Binary(Grouping(Incr(c)), "*", Num(w)), v |-> Number(w), n |-> 1] : w \in {0, 3} }
    \cup { [e |-> Literal(x), v |-> x, n |-> 0] :
             x \in {Nil, Boolean(TRUE), Boolean(FALSE), Number(0), Number(2),
                    String(<<>>), String(<<"a">>)} }

\* var l = 0; var r = 0; var v = <left> <op> <right>;
LogicalProgram(left, op, right) ==
    << Var("l", Num(0)), Var("r", Num(0)), Var("v", Logical(left.e, op, right.e)) >>

LogicalPrograms ==
    { LogicalProgram(a, op, b) : a \in Operands("l"), op \in {"or", "and"}, b \in Operands("r") }

\* var l = 0; var r = 0; var v = <true or false> ? <left> : <right>;
TernaryPrograms ==
    { << Var("l", Num(0)), Var("r", Num(0)), Var("v", Ternary(c, a.e, b.e)) >> :
        c \in {True, False}, a \in Operands("l"), b \in Operands("r") }

\* if (<value>) print 1; else print 0;
TruthPrograms ==
    { << If(c, PrintStmt(Num(1)), PrintStmt(Num(0))) >> :
        c \in { Literal(x) : x \in {Nil, Boolean(TRUE), Boolean(FALSE), Number(0), Number(1),
                                    Number(2), String(<<>>), String(<<"a">>)} }
              \cup {Variable("clock")} }

\* fun f() {}  print <a> == <b>;  print <a> != <b>;
EqualityPrograms ==
    LET operands == { Literal(x) : x \in {Nil, Boolean(TRUE), Boolean(FALSE), Number(0),
                                          Number(1), String(<<>>), String(<<"a">>)} }
                    \cup {Variable("clock"), Variable("f")}
    IN  { << FunctionStmt("f", <<>>, <<>>),
             PrintStmt(Binary(a, "==", b)), PrintStmt(Binary(a, "!=", b)) >> :
            a \in operands, b \in operands }

\* The longest parameter and argument lists of the arity programs
MaxArity == 2

\* fun f(p1, .., pn) { print 1; }  f(1, .., m);  print 2;
\* clock(1, .., m);  print 2;      for m > 0
ArityPrograms ==
    { << FunctionStmt("f", [i \in 1..n |-> "p" \o ToString(i)], <<PrintStmt(Num(1))>>),
         Expression(Call(Variable("f"), [i \in 1..m |-> Num(i)])),
         PrintStmt(Num(2)) >> : n \in 0..MaxArity, m \in 0..MaxArity }
    \cup { << PrintStmt(Num(1)),
              Expression(Call(Variable("clock"), [i \in 1..m |-> Num(i)])),
              PrintStmt(Num(2)) >> : m \in 1..MaxArity }

\* for (var i = 0; i < n;) { i = i + 1; if (i == k) continue; print i; }  print 100;
ForNoIncrementProgram(n, k) ==
    << for_statement(Var("i", Num(0)), Binary(Variable("i"), "<", Num(n)), None,
                     Block(<< Expression(Incr("i")),
                              If(Binary(Variable("i"), "==", Num(k)), Continue, None),
                              PrintStmt(Variable("i")) >>)),
       PrintStmt(Num(100)) >>

\* var x = 0; fun set() { x = 1; print x; }  set(); print x;
\* with the call at top level, or inside a block:  { set(); }
GlobalAssignProgram(nested) ==
    LET call == Expression(Call(Variable("set"), <<>>)) IN
    << Var("x", Num(0)),
       FunctionStmt("set", <<>>, << Expression(Assign("x", Num(1))), PrintStmt(Variable("x")) >>),
       IF nested THEN Block(<<call>>) ELSE call,
       PrintStmt(Variable("x")) >>

Programs ==
    BlockPrograms \cup CounterPrograms \cup ScopePrograms \cup SharedPrograms
    \cup BreakPrograms \cup BreakAtPrograms \cup ForPrograms \cup ReturnPrograms
    \cup EscapePrograms \cup ConsumedPrograms \cup TopSignalPrograms
    \cup LogicalPrograms \cup TernaryPrograms \cup TruthPrograms
    \cup EqualityPrograms \cup ArityPrograms
    \cup { ForNoIncrementProgram(n, k) : n \in 0..MaxCount, k \in 0..MaxCount }
    \cup { GlobalAssignProgram(nested) : nested \in BOOLEAN }

\* ------------------------------------------------------------------------
\* Interpreting a program: Interpreter::interpret (interpreter.rs:50-54)
\* evaluates the top-level statements in order and drops each result.
\* ------------------------------------------------------------------------
Init ==
    /\ prog \in Programs
    /\ pc = 1
    /\ interp = Interpreter_new
    /\ before = Interpreter_new
    /\ envChain = Environment_new
    /\ envBefore = Environment_new
    /\ envOp = NoOp
    /\ source = <<>>
    /\ scanner = Scanner_new(<<>>)
    /\ tokens = <<>>
    /\ scanDone = FALSE
    /\ run = [Run_new EXCEPT !.phase = "interpret"]
    /\ parser = Parser_new

\* `let _ = s.eval(&mut self.env);` for the next statement.  A runtime error
\* (lox_error!) ends the process: no later statement is evaluated.
Interpret ==
    /\ run.phase = "interpret"
    /\ pc <= Len(prog)
    /\ interp.err = NoErr
    /\ before' = interp
    /\ interp' = EvalStmt(prog[pc], interp)
    /\ pc' = pc + 1
    /\ run' = IF interp'.err # NoErr THEN Exit(run, ErrorExitCode) ELSE run
    /\ UNCHANGED <<prog, parser>>
    /\ UNCHANGED scanVars
    /\ UNCHANGED envVars

\* interpret() is through: run() returns Ok(()) and so does main()
\* (main.rs:1444-1447, 1370-1389); the process ends with status 0.
Finish ==
    /\ run.phase = "interpret"
    /\ pc > Len(prog)
    /\ interp.err = NoErr
    /\ run' = Exit(run, SuccessExitCode)
    /\ UNCHANGED <<parser, scanVars, evalVars, envVars>>

Next == Interpret \/ Finish

Spec == Init /\ [][Next]_vars

\* ------------------------------------------------------------------------
\* An environment under its operations: define, get and assign as the
\* evaluator calls them, and the frame pushed and popped around a block.
\* A failed get or assign is a runtime error (lox_error!), which ends the
\* process.
\* ------------------------------------------------------------------------
MaxFrames == 3

Names == {"x", "y"}
Values == {Number(1), Number(2)}

EnvInit ==
    /\ envChain = Environment_new
    /\ envBefore = Environment_new
    /\ envOp = NoOp
    /\ prog = <<>>
    /\ pc = 1
    /\ interp = Interpreter_new
    /\ before = Interpreter_new
    /\ source = <<>>
    /\ scanner = Scanner_new(<<>>)
    /\ tokens = <<>>
    /\ scanDone = FALSE
    /\ run = Run_new
    /\ parser = Parser_new

EnvRunning == envOp.found

EnvDefine ==
    /\ EnvRunning
    /\ \E name \in Names, value \in Values :
         /\ envChain' = define(envChain, name, value)
         /\ envOp' = [op |-> "define", name |-> name, value |-> value,
                      found |-> TRUE, result |-> NoValue]
    /\ envBefore' = envChain
    /\ UNCHANGED <<scanVars, evalVars, runVars>>

EnvGet ==
    /\ EnvRunning
    /\ \E name \in Names :
         LET r == get(envChain, name) IN
         envOp' = [op |-> "get", name |-> name, value |-> NoValue,
                   found |-> r.found, result |-> r.value]
    /\ envBefore' = envChain
    /\ UNCHANGED <<envChain, scanVars, evalVars, runVars>>

EnvAssign ==
    /\ EnvRunning
    /\ \E name \in Names, value \in Values :
         LET r == assign(envChain, name, value) IN
         /\ envChain' = r.env
         /\ envOp' = [op |-> "assign", name |-> name, value |-> value,
                      found |-> r.found, result |-> NoValue]
    /\ envBefore' = envChain
    /\ UNCHANGED <<scanVars, evalVars, runVars>>

EnvPush ==
    /\ EnvRunning
    /\ Len(envChain) < MaxFrames
    /\ envChain' = PushFrame(envChain)
    /\ envOp' = [NoOp EXCEPT !.op = "push"]
    /\ envBefore' = envChain
    /\ UNCHANGED <<scanVars, evalVars, runVars>>

EnvPop ==
    /\ EnvRunning
    /\ Len(envChain) > 1
    /\ envChain' = PopFrame(envChain)
    /\ envOp' = [NoOp EXCEPT !.op = "pop"]
    /\ envBefore' = envChain
    /\ UNCHANGED <<scanVars, evalVars, runVars>>

\* Statement::Block of main.rs:844-865 around one statement, `var name =
\* value;` or `name = value;`.  The global environment becomes a fresh frame
\* whose parent is a clone of it, and the swap moves the environment itself
\* out into `enclosed`; the statement runs on the new chain; the second swap
\* puts `enclosed` back.  `inside` is the chain the statement left.
MainBlock_eval(guard, declares, name, value) ==
    LET enclosed == guard
        swapped  == <<EmptyFrame>> \o guard
        r        == IF declares
                    THEN [env |-> define(swapped, name, value), found |-> TRUE]
                    ELSE assign(swapped, name, value)
    IN  [env |-> IF r.found THEN enclosed ELSE r.env, found |-> r.found, inside |-> r.env]

EnvBlock ==
    /\ EnvRunning
    /\ Len(envChain) < MaxFrames
    /\ \E name \in Names, value \in Values, declares \in BOOLEAN :
         LET r == MainBlock_eval(envChain, declares, name, value) IN
         /\ envChain' = r.env
         /\ envOp' = [op |-> IF declares THEN "block var" ELSE "block assign",
                      name |-> name, value |-> value,
                      found |-> r.found, result |-> get(r.inside, name).value]
    /\ envBefore' = envChain
    /\ UNCHANGED <<scanVars, evalVars, runVars>>

\* with_outermost_env! (environment.rs:128-170) around code that leaves the
\* environment alone.  On entry the outermost frame is replaced by an empty
\* frame that encloses it; on exit the crawl stops at the frame without
\* parent, whose `enclosing.take()` is None, and nothing is put back.
with_outermost_env(guard) ==
    LET n    == Len(guard)
        prev == guard[n]
    IN  SubSeq(guard, 1, n - 1) \o <<EmptyFrame, prev>>

EnvWithOutermost ==
    /\ EnvRunning
    /\ Len(envChain) < MaxFrames
    /\ envChain' = with_outermost_env(envChain)
    /\ envOp' = [NoOp EXCEPT !.op = "with_outermost_env"]
    /\ envBefore' = envChain
    /\ UNCHANGED <<scanVars, evalVars, runVars>>

EnvNext ==
    \/ EnvDefine \/ EnvGet \/ EnvAssign \/ EnvPush \/ EnvPop
    \/ EnvBlock \/ EnvWithOutermost

SpecEnv == EnvInit /\ [][EnvNext]_vars

\* ------------------------------------------------------------------------
\* Parsing the parameter list of a function declaration: Parser::function
\* (parser.rs:389-439) from the token after '(' to the '{' of the body.
\* ------------------------------------------------------------------------
\* `if parameters.len() > 255` (parser.rs:400)
ParameterLimit == 255
\* The longest parameter list parsed
MaxParamCount == 258
\* The longest token list of the lists enumerated over the vocabulary
MaxTokens == 4

\* The tokens of  p, p, .., p) {  with n parameters
ParamTokens(n) ==
    [i \in 1..(IF n = 0 THEN 2 ELSE 2 * n + 1) |->
        [type   |-> IF n > 0 /\ i < 2 * n
                    THEN (IF i % 2 = 1 THEN "Keyword" ELSE "Comma")
                    ELSE IF i = (IF n = 0 THEN 1 ELSE 2 * n) THEN "RightParen"
                    ELSE "LeftBrace",
         line   |-> 1,
         lexeme |-> <<>>]]

TokenType(i) == IF i <= Len(tokens) THEN tokens[i].type ELSE "None"

SyntaxError(msg, line) ==
    /\ parser' = [parser EXCEPT !.at = "error", !.err = msg, !.line = line]
    /\ run' = Exit([run EXCEPT !.syntax_error = TRUE], ErrorExitCode)

\* The failing arms of consume! (parser.rs:11-59) at the token of index i:
\* "[line {}] msg" with token.line() - 1, or "Internal error: msg" (no line,
\* kept as 0) when the tokens are used up.
consume_mismatch(msg, i) ==
    IF i > Len(tokens)
    THEN SyntaxError("Internal error: " \o msg, 0)
    ELSE SyntaxError(msg, tokens[i].line - 1)

\* Parameter lists that function() must refuse: one token of a well-formed
\* list replaced by ';', or the list cut short, all on line l.
BadParamTokens ==
    UNION { LET ts == ParamTokens(n) IN
            { [i \in 1..Len(ts) |-> [type   |-> IF i = k THEN "Semicolon" ELSE ts[i].type,
                                      line   |-> l,
                                      lexeme |-> <<>>]] : k \in 1..Len(ts), l \in 1..2 }
            \cup { SubSeq(ts, 1, k) : k \in 0..(Len(ts) - 1) }
          : n \in 0..2 }

\* ------------------------------------------------------------------------
\* Parser::parse (parser.rs:100-651) on a token list.  The parsing functions
\* take the tokens and the cursor and answer [cur, e, err, line]: the cursor
\* after the tokens they consumed, the tree they built, and the message and
\* line of the syntax error that ended the process (lox_error!), if any.
\* An error is passed up unchanged by every caller.
\* ------------------------------------------------------------------------
Result(cur, e, err, line) == [cur |-> cur, e |-> e, err |-> err, line |-> line]

\* A lexeme as a string
RECURSIVE Str(_)
Str(lexeme) == IF lexeme = <<>> THEN "" ELSE lexeme[1] \o Str(Tail(lexeme))

\* What the patterns of match_token! and consume! test: the variant of the
\* token and, for Token::Keyword, its keyword (Keyword::from, token.rs:60-84).
TokenKind(token) ==
    IF token.type # "Keyword" THEN token.type
    ELSE IF Str(token.lexeme) \in {"and", "break", "continue", "class", "else", "false",
                                   "fun", "for", "if", "nil", "or", "print", "return",
                                   "super", "this", "true", "var", "while"}
    THEN Str(token.lexeme)
    ELSE "Identifier"

\* match_token! (parser.rs:60-92): is there a token at cur and is it of one
\* of the kinds; the caller moves the cursor by one when it is.
match_token(toks, cur, kinds) == cur <= Len(toks) /\ TokenKind(toks[cur]) \in kinds

\* consume! (parser.rs:11-59)
consume(toks, cur, kinds, msg) ==
    IF cur > Len(toks) THEN Result(cur, None, "Internal error: " \o msg, 0)
    ELSE IF TokenKind(toks[cur]) \in kinds THEN Result(cur + 1, None, NoErr, 0)
    ELSE Result(cur, None, msg, toks[cur].line - 1)

\* The operator of a Binary, Logical or Unary node, as the evaluator reads it
OperatorOf(token) ==
    CASE token.type = "Plus" -> "+"          [] token.type = "Minus" -> "-"
      [] token.type = "Star" -> "*"          [] token.type = "Slash" -> "/"
      [] token.type = "Bang" -> "!"          [] token.type = "BangEqual" -> "!="
      [] token.type = "EqualEqual" -> "=="   [] token.type = "Greater" -> ">"
      [] token.type = "GreaterEqual" -> ">=" [] token.type = "Less" -> "<"
      [] token.type = "LessEqual" -> "<="    [] OTHER -> Str(token.lexeme)

\* The token kinds each of or, and, equality, comparison, term and factor
\* matches in its loop (parser.rs:135, 152, 187, 204, 221, 238)
LevelOps_TermFactorSwapped(level) ==
    CASE level = "or" -> {"or"}
      [] level = "and" -> {"and"}
      [] level = "equality" -> {"BangEqual", "EqualEqual"}
      [] level = "comparison" -> {"Greater", "GreaterEqual", "Less", "LessEqual"}
      [] level = "term" -> {"Slash", "Star"}
      [] level = "factor" -> {"Minus", "Plus"}

LevelOps(level) ==
    CASE level = "or" -> {"or"}
      [] level = "and" -> {"and"}
      [] level = "equality" -> {"BangEqual", "EqualEqual"}
      [] level = "comparison" -> {"Greater", "GreaterEqual", "Less", "LessEqual"}
      [] level = "term" -> {"Minus", "Plus"}
      [] level = "factor" -> {"Slash", "Star"}

\* What follows a parsing step: an error ends the parse and is handed up
\* unchanged, anything else goes on with the result of the step.
AndThen(r, next(_)) == IF r.err # NoErr THEN r ELSE next(r)

RECURSIVE assignment(_, _), binary(_, _, _), ternary(_, _), unary(_, _), call(_, _), primary(_, _)

\* Parser::assignment (parser.rs:109-130); Parser::expression is this call.
assignment(toks, cur) ==
    AndThen(binary("or", toks, cur), LAMBDA expr :
        IF ~match_token(toks, expr.cur, {"Equal"}) THEN expr
        ELSE AndThen(assignment(toks, expr.cur + 1), LAMBDA value :
                 IF expr.e.k = "Variable"
                 THEN Result(value.cur, Assign(expr.e.name, value.e), NoErr, 0)
                 ELSE Result(value.cur, None, "Invalid assignment target.", toks[expr.cur].line)))

\* Parser::or, and, equality, comparison, term, factor (parser.rs:132-164,
\* 184-250): one operand of the next level, then while an operator of the
\* level follows, another operand, folded to the left.
binary(level, toks, cur) ==
    LET operand(c) ==
            CASE level = "or" -> binary("and", toks, c)
              [] level = "and" -> ternary(toks, c)
              [] level = "equality" -> binary("comparison", toks, c)
              [] level = "comparison" -> binary("term", toks, c)
              [] level = "term" -> binary("factor", toks, c)
              [] level = "factor" -> unary(toks, c)
        RECURSIVE loop(_)
        loop(expr) ==
            IF expr.err # NoErr \/ ~match_token(toks, expr.cur, LevelOps(level)) THEN expr
            ELSE loop(AndThen(operand(expr.cur + 1), LAMBDA right :
                     Result(right.cur,
                            IF level \in {"or", "and"}
                            THEN Logical(expr.e, OperatorOf(toks[expr.cur]), right.e)
                            ELSE Binary(expr.e, OperatorOf(toks[expr.cur]), right.e),
                            NoErr, 0)))
    IN  loop(operand(cur))

\* Parser::ternary (parser.rs:166-182)
ternary(toks, cur) ==
    LET RECURSIVE loop(_)
        loop(expr) ==
            IF expr.err # NoErr \/ ~match_token(toks, expr.cur, {"QuestionMark"}) THEN expr
            ELSE loop(
                AndThen(ternary(toks, expr.cur + 1), LAMBDA trueish :
                AndThen(consume(toks, trueish.cur, {"Colon"}, "Missing ':' in ternary expression."),
                        LAMBDA colon :
                AndThen(ternary(toks, colon.cur), LAMBDA falseish :
                    Result(falseish.cur, Ternary(expr.e, trueish.e, falseish.e), NoErr, 0)))))
    IN  loop(binary("equality", toks, cur))

\* Parser::unary (parser.rs:252-264)
unary(toks, cur) ==
    IF match_token(toks, cur, {"Bang", "Minus"})
    THEN AndThen(unary(toks, cur + 1), LAMBDA right :
             Result(right.cur, Unary(OperatorOf(toks[cur]), right.e), NoErr, 0))
    ELSE call(toks, cur)

\* Parser::call and Parser::finish_call (parser.rs:266-312): every '(' after
\* the primary starts an argument list.
call(toks, cur) ==
    LET RECURSIVE arguments(_, _, _)
        arguments(args, c, line) ==
            IF Len(args) >= 255
            THEN Result(c, args, "Cannot have more than 255 arguments.", line)
            ELSE AndThen(assignment(toks, c), LAMBDA arg :
                     IF match_token(toks, arg.cur, {"Comma"})
                     THEN arguments(Append(args, arg.e), arg.cur + 1, line)
                     ELSE Result(arg.cur, Append(args, arg.e), NoErr, 0))
        finish_call(callee, c) ==
            AndThen(IF c > Len(toks) \/ TokenKind(toks[c]) = "RightParen"
                    THEN Result(c, <<>>, NoErr, 0)
                    ELSE arguments(<<>>, c, toks[c].line), LAMBDA args :
            AndThen(consume(toks, args.cur, {"RightParen"}, "Expect ')' after arguments."),
                    LAMBDA paren :
                Result(paren.cur, Call(callee, args.e), NoErr, 0)))
        RECURSIVE loop(_)
        loop(expr) ==
            IF expr.err # NoErr \/ ~match_token(toks, expr.cur, {"LeftParen"}) THEN expr
            ELSE loop(finish_call(expr.e, expr.cur + 1))
    IN  loop(primary(toks, cur))

\* Parser::primary (parser.rs:314-375).  The Eof arm answers a literal and
\* leaves the cursor where it is.
primary(toks, cur) ==
    IF cur > Len(toks) THEN Result(cur, None, "Empty file cannot be parsed.", 0)
    ELSE
      LET token == toks[cur]
          kind  == TokenKind(token)
          RECURSIVE value(_)
          value(digits) ==
              IF digits = <<>> THEN 0
              ELSE 10 * value(SubSeq(digits, 1, Len(digits) - 1))
                   + (CHOOSE d \in 0..9 : ToString(d) = digits[Len(digits)])
      IN
      CASE kind = "true"  -> Result(cur + 1, True, NoErr, 0)
        [] kind = "false" -> Result(cur + 1, False, NoErr, 0)
        [] kind = "nil"   -> Result(cur + 1, Literal(Nil), NoErr, 0)
        [] kind = "Identifier" -> Result(cur + 1, Variable(Str(token.lexeme)), NoErr, 0)
        [] kind = "Number" -> Result(cur + 1, Num(value(token.lexeme)), NoErr, 0)
        [] kind = "String" ->
               Result(cur + 1, Literal(String(SubSeq(token.lexeme, 2, Len(token.lexeme) - 1))),
                      NoErr, 0)
        [] kind = "LeftParen" ->
               AndThen(assignment(toks, cur + 1), LAMBDA expr :
               AndThen(consume(toks, expr.cur, {"RightParen"}, "Missing ')'."), LAMBDA paren :
                   Result(paren.cur, Grouping(expr.e), NoErr, 0)))
        [] kind = "Eof" -> Result(cur, Literal(Unknown), NoErr, 0)
        [] OTHER ->
               IF token.type = "Keyword"
               THEN Result(cur, None, "Unexpected identifier encountered.", token.line)
               ELSE Result(cur, None, "Unexpected token encountered.", 0)

RECURSIVE declaration(_, _), statement(_, _), block(_, _)

\* Parser::declaration and Parser::var_declaration (parser.rs:377-387,
\* 441-478).  The token lists parsed here hold no `fun`: the parameter list
\* of Parser::function is followed token by token below.
declaration(toks, cur) ==
    IF ~match_token(toks, cur, {"var"}) THEN statement(toks, cur)
    ELSE IF cur + 1 > Len(toks)
    THEN Result(cur + 1, None, "Provide a name for your variable.", toks[Len(toks)].line)
    ELSE IF toks[cur + 1].type # "Keyword"
    THEN Result(cur + 1, None, "Provide a name for your variable.", toks[cur + 1].line)
    ELSE IF TokenKind(toks[cur + 1]) # "Identifier"
    THEN Result(cur + 1, None, "The name of your variable cannot be a keyword.", toks[cur + 1].line)
    ELSE AndThen(IF match_token(toks, cur + 2, {"Equal"})
                 THEN assignment(toks, cur + 3)
                 ELSE Result(cur + 2, None, NoErr, 0), LAMBDA initializer :
         AndThen(consume(toks, initializer.cur, {"Semicolon"}, "Missing ';'."), LAMBDA semi :
             Result(semi.cur, Var(Str(toks[cur + 1].lexeme), initializer.e), NoErr, 0)))

\* Parser::statement with print_statement, while_statement, if_statement,
\* break_statement, continue_statement and expression_statement
\* (parser.rs:480-509, 578-641).  The token lists hold no `for`.
statement(toks, cur) ==
    CASE match_token(toks, cur, {"print"}) ->
           AndThen(assignment(toks, cur + 1), LAMBDA value :
           AndThen(consume(toks, value.cur, {"Semicolon"}, "Missing ';'."), LAMBDA semi :
               Result(semi.cur, PrintStmt(value.e), NoErr, 0)))
      [] match_token(toks, cur, {"while"}) ->
           AndThen(consume(toks, cur + 1, {"LeftParen"}, "Expected '(' after 'while'."),
                   LAMBDA open :
           AndThen(assignment(toks, open.cur), LAMBDA condition :
           AndThen(consume(toks, condition.cur, {"RightParen"}, "Expected ')' after condition."),
                   LAMBDA close :
           AndThen(statement(toks, close.cur), LAMBDA body :
               Result(body.cur, While(condition.e, body.e, FALSE), NoErr, 0)))))
      [] match_token(toks, cur, {"if"}) ->
           AndThen(consume(toks, cur + 1, {"LeftParen"}, "Expected '(' after 'if'."),
                   LAMBDA open :
           AndThen(assignment(toks, open.cur), LAMBDA condition :
           AndThen(consume(toks, condition.cur, {"RightParen"}, "Expected ')' after if condition."),
                   LAMBDA close :
           AndThen(statement(toks, close.cur), LAMBDA then_branch :
           AndThen(IF match_token(toks, then_branch.cur, {"else"})
                   THEN statement(toks, then_branch.cur + 1)
                   ELSE Result(then_branch.cur, None, NoErr, 0), LAMBDA else_branch :
               Result(else_branch.cur, If(condition.e, then_branch.e, else_branch.e),
                      NoErr, 0))))))
      [] match_token(toks, cur, {"break"}) ->
           AndThen(consume(toks, cur + 1, {"Semicolon"}, "Missing ';'."), LAMBDA semi :
               Result(semi.cur, Break, NoErr, 0))
      [] match_token(toks, cur, {"continue"}) ->
           AndThen(consume(toks, cur + 1, {"Semicolon"}, "Missing ';'."), LAMBDA semi :
               Result(semi.cur, Continue, NoErr, 0))
      [] match_token(toks, cur, {"LeftBrace"}) ->
           AndThen(block(toks, cur + 1), LAMBDA stmts :
               Result(stmts.cur, Block(stmts.e), NoErr, 0))
      [] OTHER ->
           AndThen(assignment(toks, cur), LAMBDA expr :
           AndThen(consume(toks, expr.cur, {"Semicolon", "Eof"}, "Missing ';'."), LAMBDA semi :
               Result(semi.cur, Expression(expr.e), NoErr, 0)))

\* Parser::block (parser.rs:511-525): declarations up to '}' or Eof, then '}'
block(toks, cur) ==
    LET RECURSIVE loop(_)
        loop(r) ==
            IF r.err # NoErr \/ r.cur > Len(toks) \/ TokenKind(toks[r.cur]) \in {"RightBrace", "Eof"}
            THEN r
            ELSE loop(AndThen(declaration(toks, r.cur), LAMBDA d :
                     Result(d.cur, Append(r.e, d.e), NoErr, 0)))
    IN  AndThen(loop(Result(cur, <<>>, NoErr, 0)), LAMBDA statements :
        AndThen(consume(toks, statements.cur, {"RightBrace"}, "Missing '}'."), LAMBDA brace :
            Result(brace.cur, statements.e, NoErr, 0)))

\* Token lists handed to Parser::parse: every list of up to MaxTokens tokens
\* of a small vocabulary, and longer programs.
Token(type, lexeme) == [type |-> type, line |-> 1, lexeme |-> lexeme]

Vocabulary ==
    { Token("Number", <<"1">>), Token("Keyword", <<"a">>), Token("Plus", <<"+">>),
      Token("Equal", <<"=">>), Token("Semicolon", <<";">>), Token("QuestionMark", <<"?">>),
      Token("Colon", <<":">>), Token("Keyword", <<"p", "r", "i", "n", "t">>),
      Token("Eof", <<>>) }

\* 1 op1 2 op2 3 ;
BinaryTokens(op1, op2) ==
    << Token("Number", <<"1">>), op1, Token("Number", <<"2">>), op2, Token("Number", <<"3">>),
       Token("Semicolon", <<";">>), Token("Eof", <<>>) >>

ArithmeticOps ==
    { Token("Plus", <<"+">>), Token("Minus", <<"-">>), Token("Star", <<"*">>),
      Token("Slash", <<"/">>) }

SampleTokens(which) ==
    LET Id(c) == Token("Keyword", <<c>>)
        Kw(w) == Token("Keyword", w)
        One   == Token("Number", <<"1">>)
        Semi  == Token("Semicolon", <<";">>)
        LP    == Token("LeftParen", <<"(">>)
        RP    == Token("RightParen", <<")">>)
    IN
    CASE which = "assign" ->          \* a = b = 1;
           << Id("a"), Token("Equal", <<"=">>), Id("b"), Token("Equal", <<"=">>), One, Semi,
              Token("Eof", <<>>) >>
      [] which = "ternary" ->         \* a ? b : c ? d : e;
           << Id("a"), Token("QuestionMark", <<"?">>), Id("b"), Token("Colon", <<":">>),
              Id("c"), Token("QuestionMark", <<"?">>), Id("d"), Token("Colon", <<":">>),
              Id("e"), Semi, Token("Eof", <<>>) >>
      [] which = "statements" ->
           \* var a = 12; { print -a; } if (a or !a) break; else continue; while (a) a(1, a);
           << Kw(<<"v", "a", "r">>), Id("a"), Token("Equal", <<"=">>),
              Token("Number", <<"1", "2">>), Semi,
              Token("LeftBrace", <<"{">>), Kw(<<"p", "r", "i", "n", "t">>),
              Token("Minus", <<"-">>), Id("a"), Semi, Token("RightBrace", <<"}">>),
              Kw(<<"i", "f">>), LP, Id("a"), Kw(<<"o", "r">>), Token("Bang", <<"!">>), Id("a"), RP,
              Kw(<<"b", "r", "e", "a", "k">>), Semi,
              Kw(<<"e", "l", "s", "e">>), Kw(<<"c", "o", "n", "t", "i", "n", "u", "e">>), Semi,
              Kw(<<"w", "h", "i", "l", "e">>), LP, Id("a"), RP,
              Id("a"), LP, One, Token("Comma", <<",">>), Id("a"), RP, Semi,
              Token("Eof", <<>>) >>

ParseTokens ==
    SeqsUpTo(Vocabulary, MaxTokens)
    \cup { BinaryTokens(op1, op2) : op1 \in ArithmeticOps, op2 \in ArithmeticOps }
    \cup { SampleTokens(which) : which \in {"assign", "ternary", "statements"} }

ParseInit ==
    /\ \/ /\ tokens \in { ParamTokens(n) : n \in 0..MaxParamCount } \cup BadParamTokens
          /\ parser = Parser_new
       \/ /\ tokens \in ParseTokens
          /\ parser = [Parser_new EXCEPT !.at = "parse"]
    /\ run = [Run_new EXCEPT !.phase = "parse"]
    /\ source = <<>>
    /\ scanner = Scanner_new(<<>>)
    /\ scanDone = TRUE
    /\ prog = <<>>
    /\ pc = 1
    /\ interp = Interpreter_new
    /\ before = Interpreter_new
    /\ envChain = Environment_new
    /\ envBefore = Environment_new
    /\ envOp = NoOp

\* parser.rs:394-398: a ')' right away means no parameters
ParamsBegin ==
    /\ parser.at = "begin"
    /\ parser' = [parser EXCEPT !.at = IF TokenType(parser.current) \in {"RightParen", "None"}
                                       THEN "close" ELSE "loop"]
    /\ UNCHANGED <<run, scanVars, evalVars, envVars>>

\* One turn of the loop of parser.rs:399-413: the limit check, the
\* parameter name, and the comma that asks for another turn.
ParamNext ==
    /\ parser.at = "loop"
    /\ IF Len(parser.parameters) > ParameterLimit
       THEN SyntaxError("Can't have more than 255 parameters.", tokens[1].line)
       ELSE IF TokenType(parser.current) # "Keyword"
       THEN consume_mismatch("Expected parameter name.", parser.current)
       ELSE /\ parser' = [parser EXCEPT
                            !.parameters = Append(@, tokens[parser.current]),
                            !.current = IF TokenType(parser.current + 1) = "Comma"
                                        THEN @ + 2 ELSE @ + 1,
                            !.at = IF TokenType(parser.current + 1) = "Comma"
                                   THEN "loop" ELSE "close"]
            /\ UNCHANGED run
    /\ UNCHANGED <<scanVars, evalVars, envVars>>

\* parser.rs:419-424: ')' and '{' close the parameter list
ParamsEnd ==
    /\ parser.at = "close"
    /\ IF TokenType(parser.current) # "RightParen"
       THEN consume_mismatch("Expected ')' after parameters.", parser.current)
       ELSE IF TokenType(parser.current + 1) # "LeftBrace"
       THEN consume_mismatch("Expected '{' before function body.", parser.current + 1)
       ELSE /\ parser' = [parser EXCEPT !.at = "accepted", !.current = @ + 2]
            /\ UNCHANGED run
    /\ UNCHANGED <<scanVars, evalVars, envVars>>

\* The loop of Parser::parse that leaves the last token where it is
ParseDone_BeforeLastToken ==
    /\ parser.at = "parse"
    /\ parser.current >= Len(tokens)
    /\ parser' = [parser EXCEPT !.at = "accepted"]
    /\ UNCHANGED <<run, scanVars, evalVars, envVars>>

\* One turn of the loop of Parser::parse (parser.rs:643-651), while
\* current < tokens.len(): statements.push(self.declaration()).  `current`
\* counts from 1 here, so the test reads current <= Len(tokens).
ParseDeclaration ==
    /\ parser.at = "parse"
    /\ parser.current <= Len(tokens)
    /\ LET r == declaration(tokens, parser.current) IN
       IF r.err # NoErr
       THEN SyntaxError(r.err, r.line) /\ UNCHANGED prog
       ELSE /\ parser' = [parser EXCEPT !.current = r.cur]
            /\ prog' = Append(prog, r.e)
            /\ UNCHANGED run
    /\ UNCHANGED <<pc, interp, before, scanVars, envVars>>

\* The loop is over: parse returns the statements.
ParseDone ==
    /\ parser.at = "parse"
    /\ parser.current > Len(tokens)
    /\ parser' = [parser EXCEPT !.at = "accepted"]
    /\ UNCHANGED <<run, scanVars, evalVars, envVars>>

ParseNext == ParamsBegin \/ ParamNext \/ ParamsEnd \/ ParseDeclaration \/ ParseDone

SpecParse == ParseInit /\ [][ParseNext]_vars

\* ------------------------------------------------------------------------
\* run(source) as a whole (main.rs:1425-1448): scan, stop on lexical errors,
\* parse, interpret.
\* ------------------------------------------------------------------------
\* What Parser::parse may hand to the interpreter.  The statements are not
\* computed from the tokens here: run() is followed with any of these
\* programs, or with a syntax error.
ParsedPrograms == {<<>>} \cup TruthPrograms \cup ArityPrograms

\* RunErrorCheck without the test of main.rs:1434: the parser is invoked
\* whatever the scanner recorded.
RunErrorCheck_SkipsCheck ==
    /\ run.phase = "scan"
    /\ scanDone
    /\ run' = IF scanner.panicked THEN [run EXCEPT !.phase = "aborted"]
              ELSE [run EXCEPT !.phase = "parse"]
    /\ UNCHANGED <<parser, scanVars, evalVars, envVars>>

\* main.rs:1429-1439: collect() is over (a panic of the scanner unwinds the
\* process); the recorded errors, if any, make run() return Err, which main
\* reports before exit(1) (main.rs:1379-1382).
RunErrorCheck ==
    /\ run.phase = "scan"
    /\ scanDone
    /\ run' = IF scanner.panicked THEN [run EXCEPT !.phase = "aborted"]
              ELSE IF scanner.errors # <<>> THEN Exit(run, ErrorExitCode)
              ELSE [run EXCEPT !.phase = "parse"]
    /\ UNCHANGED <<parser, scanVars, evalVars, envVars>>

\* main.rs:1441-1442: Parser::new(tokens).parse(); a syntax error exits
RunParse ==
    /\ run.phase = "parse"
    /\ \/ /\ run' = Exit([run EXCEPT !.syntax_error = TRUE], ErrorExitCode)
          /\ UNCHANGED prog
       \/ /\ prog' \in ParsedPrograms
          /\ run' = [run EXCEPT !.phase = "interpret"]
    /\ UNCHANGED <<pc, interp, before, parser, scanVars, envVars>>

RunNext == NextToken \/ NextNone \/ RunErrorCheck \/ RunParse \/ Interpret \/ Finish

SpecRun == ScanInit /\ [][RunNext]_vars

\* Two environments with the same frames, each holding the same names
SameFrames(e1, e2) ==
    /\ Len(e1) = Len(e2)
    /\ \A i \in 1..Len(e1) : DOMAIN e1[i] = DOMAIN e2[i]

\* ------------------------------------------------------------------------
\* C1: for every source, the collected token sequence ends with exactly one
\* Eof token and holds no other Eof token.
\* ------------------------------------------------------------------------
EofCount == Cardinality({i \in 1..Len(tokens) : tokens[i].type = "Eof"})

C1_EndsWithOneEof ==
    scanDone => /\ Len(tokens) > 0
                /\ tokens[Len(tokens)].type = "Eof"
                /\ EofCount = 1

\* ------------------------------------------------------------------------
\* C2: executing a Block leaves the environment chain with the same number
\* of frames and the same frames (no frame gains or loses a name) as before
\* the block was entered, whether it completes or a statement of it raises
\* Break, Continue or Return at any depth.
\* ------------------------------------------------------------------------
RanBlock == pc > 1 /\ prog[pc - 1].k = "Block" /\ interp.err = NoErr

C2_BlockRestoresEnv == RanBlock => SameFrames(interp.env, before.env)

C2_Witness ==
    /\ RanBlock
    /\ interp.sig = "Return"
    /\ Len(prog[pc - 1].stmts) >= 2
    /\ prog[pc - 1].stmts[2].k = "Block"
    /\ Len(prog[pc - 1].stmts[2].stmts) >= 2
    /\ prog[pc - 1].stmts[2].stmts[2].k = "Block"
    /\ SameFrames(interp.env, before.env)

\* The run is over: every statement ran, or a runtime error ended the process
Finished == pc > Len(prog) \/ interp.err # NoErr

C4_CallFrameIsLexical ==
    /\ prog = CallerOnlyProgram /\ Finished =>
            interp.err = "Undefined variable" /\ interp.out = <<>>
    /\ prog = ShadowProgram /\ Finished =>
            interp.err = NoErr /\ interp.out = <<Number(1)>>
    /\ prog = LexicalProgram /\ Finished =>
            interp.err = NoErr /\ interp.out = <<Number(2)>>
    /\ \A v \in 0..MaxCalls : prog = ParamProgram(v) /\ Finished =>
            interp.err = NoErr /\ interp.out = <<Number(v)>>

Holders == { i \in 1..Len(envBefore) : envOp.name \in DOMAIN envBefore[i] }
Innermost(S) == CHOOSE i \in S : \A j \in S : i <= j

\* ------------------------------------------------------------------------
\* C6: get(name) answers the value bound to name in the innermost frame
\* that holds it, is a runtime error exactly when no frame holds it, and
\* changes no frame.
\* ------------------------------------------------------------------------
C6_GetInnermostBinding ==
    envOp.op = "get" =>
        /\ envOp.found <=> Holders # {}
        /\ Holders # {} => envOp.result = envBefore[Innermost(Holders)][envOp.name]
        /\ envChain = envBefore

C6_Witness ==
    /\ envOp.op = "get"
    /\ Cardinality(Holders) >= 2
    /\ \E i \in Holders : envBefore[i][envOp.name] # envOp.result
    /\ envOp.result = envBefore[Innermost(Holders)][envOp.name]

\* ------------------------------------------------------------------------
\* C7: assign(name, v) overwrites the binding of name in the innermost frame
\* that holds it and changes nothing else; when no frame holds name it is a
\* runtime error and no frame changes.
\* ------------------------------------------------------------------------
C7_AssignInnermostOnly ==
    envOp.op = "assign" =>
        /\ envOp.found <=> Holders # {}
        /\ SameFrames(envChain, envBefore)
        /\ \A i \in 1..Len(envBefore) : \A m \in DOMAIN envBefore[i] :
               envChain[i][m] = IF Holders # {} /\ i = Innermost(Holders) /\ m = envOp.name
                                THEN envOp.value
                                ELSE envBefore[i][m]

C7_Witness ==
    /\ envOp.op = "assign"
    /\ Cardinality(Holders) >= 2
    /\ envBefore[Innermost(Holders)][envOp.name] # envOp.value
    /\ envChain[Innermost(Holders)][envOp.name] = envOp.value
    /\ \E i \in Holders : i # Innermost(Holders) /\ envChain[i][envOp.name] # envOp.value

\* ------------------------------------------------------------------------
\* C8: a Break ends only the innermost enclosing loop: that loop completes
\* normally without testing its condition again, no Break passes it, and the
\* outer loop goes on iterating.
\* ------------------------------------------------------------------------
C8_BreakEndsInnermostLoop ==
    /\ \A n \in 0..MaxCount :
          prog \in { BreakProgram(n, b) : b \in Under(Break, MaxDepth) } /\ Finished =>
              interp.err = NoErr /\ interp.out = <<Number(n), Number(n)>>
    /\ \A l \in 0..MaxCount :
          prog = BreakAtProgram(l) /\ Finished =>
              interp.err = NoErr /\ interp.out = <<Number(l)>>
    /\ pc > 1 /\ prog[pc - 1].k = "While" /\ interp.err = NoErr => interp.sig = "Ok"

C8_Witness ==
    /\ prog \in { BreakProgram(MaxCount, b) : b \in Under(Break, MaxDepth) }
    /\ prog[3].body.stmts[1].body.k = "Block"
    /\ Finished
    /\ interp.out = <<Number(MaxCount), Number(MaxCount)>>

\* ------------------------------------------------------------------------
\* C9: in a for loop with an increment clause, a Continue raised in the body
\* runs the increment once and then tests the condition again, and no other
\* statement of the body runs in that iteration: the loop over 0..n-1 that
\* continues at k prints every i < n but k, and ends.
\* ------------------------------------------------------------------------
CountSkipping(n, k) ==
    SelectSeq([j \in 1..n |-> Number(j - 1)], LAMBDA v : v.n # k)

C9_ContinueRunsIncrement ==
    \A n \in 0..MaxCount, k \in 0..MaxCount :
        prog \in {ForContinueProgram(n, k), ForContinueBareProgram(n, k)} /\ Finished =>
            interp.err = NoErr /\ interp.out = CountSkipping(n, k) \o <<Number(100)>>

C9_Witness ==
    /\ prog = ForContinueProgram(5, 2)
    /\ Finished
    /\ interp.out = <<Number(0), Number(1), Number(3), Number(4), Number(100)>>

\* ------------------------------------------------------------------------
\* C10: a Return raised in a function body under any nesting of blocks, ifs
\* and loops runs no further statement of the body and ends the call, whose
\* value is the returned value (Nil for a bare return or a body that
\* completes).
\* ------------------------------------------------------------------------
C10_ReturnEndsCall ==
    /\ prog \in ReturnValuePrograms /\ Finished =>
            interp.err = NoErr /\ interp.out = <<Number(7)>>
    /\ prog \in ReturnNonePrograms /\ Finished =>
            interp.err = NoErr /\ interp.out = <<Nil>>
    /\ prog = NoReturnProgram /\ Finished =>
            interp.err = NoErr /\ interp.out = <<Number(1), Nil>>
    /\ prog \in ReturnPrograms /\ Finished => SameFrames(interp.env, before.env)

C10_Witness ==
    /\ prog \in ReturnValuePrograms
    /\ prog[1].body[1].k = "While"
    /\ prog[1].body[1].body.stmts[1].k = "Block"
    /\ Finished
    /\ interp.out = <<Number(7)>>


UnexpectedToken == "Function terminated with an unexpected token."

\* ------------------------------------------------------------------------
\* C11: a Break or Continue that leaves a function body without being
\* consumed by a loop of that body is a runtime error at the call boundary
\* and never reaches a loop around the call site; one consumed by a loop of
\* the body is no error.
\* ------------------------------------------------------------------------
C11_SignalAtCallBoundary ==
    /\ prog \in EscapePrograms /\ Finished =>
            interp.err = UnexpectedToken /\ interp.out = <<>>
    /\ prog \in ConsumedPrograms /\ Finished =>
            interp.err = NoErr /\ interp.out = <<Number(5)>>

C11_Witness ==
    /\ prog \in EscapePrograms
    /\ prog[1].body[1].k = "Block"
    /\ pc = 4
    /\ interp.err = UnexpectedToken
    /\ before.out = <<>>
    /\ interp.out = <<>>

\* ------------------------------------------------------------------------
\* C12: a Return, Break or Continue that escapes a top-level statement is
\* reported as a runtime error, never silently dropped.
\* ------------------------------------------------------------------------
C12_TopLevelSignalIsError ==
    pc > 1 /\ interp.sig # "Ok" => interp.err # NoErr


\* The value of a global variable at the end of the last statement
Global(name) == interp.env[Len(interp.env)][name]

\* ------------------------------------------------------------------------
\* C13: a logical expression evaluates its left operand exactly once; `or`
\* with a truthy left and `and` with a falsey left never evaluate the right
\* operand and yield the left value; otherwise the right operand is
\* evaluated exactly once and its value is the result.
\* ------------------------------------------------------------------------
C13_LogicalShortCircuit ==
    \A a \in Operands("l"), op \in {"or", "and"}, b \in Operands("r") :
        prog = LogicalProgram(a, op, b) /\ pc = 4 =>
            /\ interp.err = NoErr
            /\ Global("l") = Number(a.n)
            /\ IF (op = "or") = is_truthy(a.v)
               THEN Global("v") = a.v /\ Global("r") = Number(0)
               ELSE Global("v") = b.v /\ Global("r") = Number(b.n)

C13_Witness ==
    /\ \E a \in Operands("l"), b \in Operands("r") :
          /\ a.n = 1 /\ b.n = 1 /\ is_truthy(a.v)
          /\ prog = LogicalProgram(a, "or", b)
    /\ pc = 4
    /\ Global("l") = Number(1)
    /\ Global("r") = Number(0)
    /\ Global("v") = Boolean(TRUE)


\* ------------------------------------------------------------------------
\* C14: a ternary expression evaluates its condition and then exactly one
\* branch: the then-branch when the condition is truthy, the else-branch
\* otherwise; the side effects of the other branch never occur.
\* ------------------------------------------------------------------------
C14_TernaryLazy ==
    prog \in TernaryPrograms /\ pc = 4 =>
        LET e == prog[3].initializer
            a == CHOOSE x \in Operands("l") : x.e = e.trueish
            b == CHOOSE x \in Operands("r") : x.e = e.falseish
        IN  /\ interp.err = NoErr
            /\ IF e.condition = True
               THEN Global("v") = a.v /\ Global("l") = Number(a.n) /\ Global("r") = Number(0)
               ELSE Global("v") = b.v /\ Global("r") = Number(b.n) /\ Global("l") = Number(0)


\* ------------------------------------------------------------------------
\* C15: a value is falsey exactly when it is false or Nil; every other
\* value, Number 0 and the empty string included, is truthy.
\* ------------------------------------------------------------------------
C15_FalseyIsFalseOrNil ==
    prog \in TruthPrograms /\ pc = 2 =>
        /\ interp.err = NoErr
        /\ interp.out = << IF prog[1].condition \in {False, Literal(Nil)}
                           THEN Number(0) ELSE Number(1) >>


\* ------------------------------------------------------------------------
\* C16: == is true only for two strings, two numbers or two booleans with
\* equal payloads and for Nil with Nil; every other pair, any pair with
\* different tags and any pair with a callable included, is unequal; != is
\* its negation.
\* ------------------------------------------------------------------------
C16_EqualityBySameTagPayload ==
    prog \in EqualityPrograms /\ pc = 4 =>
        LET a  == prog[2].expr.left
            b  == prog[2].expr.right
            eq == a.k = "Literal" /\ b.k = "Literal" /\ a.value = b.value
        IN  /\ interp.err = NoErr
            /\ interp.out = <<Boolean(eq), Boolean(~eq)>>


\* ------------------------------------------------------------------------
\* C17: a call with a number of arguments other than the callee's arity is
\* the runtime error "Expected N arguments but got M." raised before the
\* body starts (no parameter bound, no statement of the body run); a call
\* with exactly arity arguments does not raise it.
\* ------------------------------------------------------------------------
C17_ArityChecked ==
    prog \in ArityPrograms /\ pc > 2 =>
        LET m == Len(prog[2].expr.arguments)
            n == IF prog[1].k = "Function" THEN Len(prog[1].params) ELSE 0
        IN  IF m # n
            THEN /\ interp.err = ArityError(n, m)
                 /\ interp.out = before.out
                 /\ interp.env = before.env
                 /\ interp.funs = before.funs
            ELSE /\ interp.err = NoErr
                 /\ Finished => interp.out = <<Number(1), Number(2)>>

C17_Witness ==
    /\ prog \in ArityPrograms
    /\ prog[1].k = "Function"
    /\ Len(prog[1].params) = 1
    /\ Len(prog[2].expr.arguments) = 2
    /\ pc = 3
    /\ interp.err = "Expected 1 arguments but got 2."
    /\ interp.out = <<>>


\* ------------------------------------------------------------------------
\* C18: a function declaration with n parameters is accepted when n <= 255
\* and rejected with a syntax error when n > 255.
\* ------------------------------------------------------------------------
C18_AtMost255Parameters ==
    LET n == Cardinality({ i \in 1..Len(tokens) : tokens[i].type = "Keyword" }) IN
    /\ parser.at = "accepted" => n <= ParameterLimit
    /\ parser.at = "error" /\ parser.err = "Can't have more than 255 parameters."
          => n > ParameterLimit


\* ------------------------------------------------------------------------
\* C19: when the scanner has recorded a lexical error, run() reports and
\* returns before the parser or the evaluator is invoked: no statement is
\* executed, nothing is printed, and the process ends with status 1.
\* ------------------------------------------------------------------------
C19_LexicalErrorsStopRun ==
    scanner.errors # <<>> =>
        /\ run.phase \in {"scan", "exited", "aborted"}
        /\ prog = <<>> /\ pc = 1
        /\ interp = Interpreter_new
        /\ run.phase = "exited" => run.code = ErrorExitCode /\ ~run.syntax_error

C19_Witness ==
    /\ scanner.errors # <<>>
    /\ Len(tokens) >= 2
    /\ run.phase = "exited"
    /\ run.code = ErrorExitCode
    /\ interp.out = <<>>

\* ------------------------------------------------------------------------
\* C20: a syntax or runtime error is fatal at once: the process ends with
\* status 1, and after the end no statement runs and nothing more is
\* printed; a run without any error ends with status 0, after its last
\* statement.
\* ------------------------------------------------------------------------
C20_ErrorsAreFatal ==
    /\ [](interp.err # NoErr \/ run.syntax_error =>
              run.phase = "exited" /\ run.code = ErrorExitCode)
    /\ [](run.phase = "exited" /\ interp.err = NoErr /\ ~run.syntax_error
              /\ scanner.errors = <<>> =>
              run.code = SuccessExitCode /\ pc > Len(prog))
    /\ [](run.phase = "exited" /\ run.code = SuccessExitCode =>
              interp.err = NoErr /\ ~run.syntax_error /\ scanner.errors = <<>>)
    /\ [][run.phase = "exited" => UNCHANGED vars]_vars

C20_Witness ==
    /\ interp.err # NoErr
    /\ run.phase = "exited"
    /\ run.code = ErrorExitCode
    /\ pc <= Len(prog)
    /\ interp.out = <<Number(1)>>


\* ------------------------------------------------------------------------
\* C21: when consume! meets a token of the wrong kind, the N of the reported
\* "[line N]" is the 1-based line of that token, so N >= 1.
\* ------------------------------------------------------------------------
C21_MismatchReportsTokenLine ==
    (/\ parser.at = "error"
     /\ parser.err \in {"Expected parameter name.", "Expected ')' after parameters.",
                        "Expected '{' before function body."})
        => /\ parser.line >= 1
           /\ \E i \in 1..Len(tokens) :
                 tokens[i].type = "Semicolon" /\ parser.line = tokens[i].line

\* ------------------------------------------------------------------------
\* C22: a block comment runs from "/*" to the nearest "*/": whatever its body
\* holds (a lone '*', a lone '/', a nested "/*"), the body yields no token and
\* no error, and scanning resumes right after the "*/".
\* ------------------------------------------------------------------------
ClosesAt(src, i) == i < Len(src) /\ src[i] = "*" /\ src[i + 1] = "/"

TokenTypes == [i \in 1..Len(tokens) |-> tokens[i].type]

C22_BlockCommentToNearestClose ==
    \A body \in CommentBodies, tail \in {<<>>, <<"a">>} :
        (/\ source = <<"/", "*">> \o body \o <<"*", "/">> \o tail
         /\ \A i \in 3..(Len(body) + 2) : ~ClosesAt(source, i)
         /\ scanDone)
            => /\ scanner.errors = <<>>
               /\ ~scanner.panicked
               /\ TokenTypes = (IF tail = <<>> THEN <<"Eof">> ELSE <<"Keyword", "Eof">>)

\* ------------------------------------------------------------------------
\* C28: every token other than a string carries the line 1 + the number of
\* newlines that precede it in the source, newlines inside line comments,
\* block comments and strings included.  Right after a token is produced,
\* scanner.start is the offset at which that token begins.
\* ------------------------------------------------------------------------
NewlinesBefore(src, n) == Cardinality({ i \in 1..n : i <= Len(src) /\ src[i] = "\n" })

C28_LineCountsEveryNewline ==
    (/\ ~scanDone
     /\ tokens # <<>>
     /\ ~scanner.panicked
     /\ tokens[Len(tokens)].type # "String")
        => tokens[Len(tokens)].line = 1 + NewlinesBefore(source, scanner.start)

\* ------------------------------------------------------------------------
\* C30: a block comment that is never closed ends the scan normally: nothing
\* crashes, the rest of the source is comment, the only token is Eof and the
\* next call yields None.
\* ------------------------------------------------------------------------
C30_UnterminatedCommentEndsScan ==
    (/\ Len(source) >= 2
     /\ source[1] = "/" /\ source[2] = "*"
     /\ \A i \in 3..Len(source) : ~ClosesAt(source, i))
        => /\ ~scanner.panicked
           /\ scanDone => TokenTypes = <<"Eof">>

C29_ContinueSkipsRestOfBody ==
    \A n \in 0..MaxCount, k \in 0..MaxCount :
        prog = ForNoIncrementProgram(n, k) /\ Finished =>
            /\ interp.err = NoErr
            /\ interp.out = SelectSeq([j \in 1..n |-> Number(j)], LAMBDA v : v.n # k)
                               \o <<Number(100)>>

\* ------------------------------------------------------------------------
\* C26: in both Block implementations an assignment made inside a block to
\* a variable of an enclosing frame persists after the block, and a name
\* defined inside the block resolves after it as it did before it.  Stated
\* for the Block of main.rs.
\* ------------------------------------------------------------------------
C26_BlockAssignmentsPersist ==
    /\ (envOp.op = "block assign" /\ envOp.found) =>
            /\ get(envChain, envOp.name) = [found |-> TRUE, value |-> envOp.value]
            /\ Len(envChain) = Len(envBefore)
    /\ envOp.op = "block var" =>
            /\ get(envChain, envOp.name) = get(envBefore, envOp.name)
            /\ Len(envChain) = Len(envBefore)

\* ------------------------------------------------------------------------
\* C27: with_outermost_env! restores the environment on exit: the chain has
\* the frames it had on entry, the temporary frame is gone, and repeated
\* uses do not grow the chain.
\* ------------------------------------------------------------------------
C27_WithOutermostEnvRestores ==
    envOp.op = "with_outermost_env" => envChain = envBefore

\* ------------------------------------------------------------------------
\* C23: for every token list Parser::parse accepts, the cursor never passes
\* the end of the list and parse returns with current equal to the token
\* count: every token, Eof included, has been consumed.  (current counts
\* from 1 in the model: the token count is current - 1.)
\* ------------------------------------------------------------------------
C23_ParseConsumesEveryToken ==
    /\ parser.at \in {"parse", "accepted"} => parser.current - 1 <= Len(tokens)
    /\ (parser.at = "accepted" /\ tokens \in ParseTokens) => parser.current - 1 = Len(tokens)

C23_Witness ==
    /\ parser.at = "accepted"
    /\ tokens = SampleTokens("statements")
    /\ tokens[Len(tokens)].type = "Eof"
    /\ parser.current - 1 = Len(tokens)
    /\ Len(prog) = 5

\* ------------------------------------------------------------------------
\* C24: the parser builds trees by the precedence table: `*` and `/` bind
\* tighter than `+` and `-`, binary operators of equal precedence associate
\* to the left, assignment and the ternary associate to the right.
\* ------------------------------------------------------------------------
C24_PrecedenceAndAssociativity ==
    LET Tighter(op2, op1) == op2.type \in {"Star", "Slash"} /\ op1.type \in {"Plus", "Minus"}
        V(c) == Variable(c)
    IN
    parser.at = "accepted" =>
        /\ \A op1 \in ArithmeticOps, op2 \in ArithmeticOps :
              tokens = BinaryTokens(op1, op2) =>
                 prog[1] = Expression(
                     IF Tighter(op2, op1)
                     THEN Binary(Num(1), Str(op1.lexeme), Binary(Num(2), Str(op2.lexeme), Num(3)))
                     ELSE Binary(Binary(Num(1), Str(op1.lexeme), Num(2)), Str(op2.lexeme), Num(3)))
        /\ tokens = SampleTokens("assign") =>
              prog[1] = Expression(Assign("a", Assign("b", Num(1))))
        /\ tokens = SampleTokens("ternary") =>
              prog[1] = Expression(Ternary(V("a"), V("b"), Ternary(V("c"), V("d"), V("e"))))

C24_Witness ==
    /\ parser.at = "accepted"
    /\ tokens = BinaryTokens(Token("Plus", <<"+">>), Token("Star", <<"*">>))
    /\ prog[1] = Expression(Binary(Num(1), "+", Binary(Num(2), "*", Num(3))))

====
